---------------------------- MODULE Spec2Model ----------------------------
(***************************************************************************)
(* Household budget ledger: HouseholdBudgetData (data/dataManager.js), the *)
(* Sanitizer (utils/sanitizer.js) it validates with, and the two storage   *)
(* backends it writes to (IndexedDBManager and the localStorage blob).     *)
(*                                                                         *)
(* Conventions of the model                                                *)
(*  - A JavaScript string is a sequence of characters; every character is  *)
(*    a one-element TLA+ string.  A kanji or kana of the source is written *)
(*    as its reading ("kyu","yo" for the two characters of the category    *)
(*    name of src/unnamed/part_001 line 108).                              *)
(*  - Amounts are fixed-point numbers with one decimal digit: the integer  *)
(*    15 is the JavaScript number 1.5.  A raw amount that parses to NaN is *)
(*    the value RawNaN.                                                    *)
(*  - A date string "YYYY-MM-DD" is the triple <<y, m, d>>; the empty      *)
(*    string, and every string the pattern of sanitizeDate rejects, is     *)
(*    <<>>.                                                                *)
(*  - new Date() is the logical clock now; one step reads one clock value. *)
(***************************************************************************)
EXTENDS Integers, Sequences, FiniteSets, TLC

VARIABLES
    transactions,      \* this.transactions
    categories,        \* this.categories
    filters,           \* this.filters
    summaryCache,      \* this.summaryCache
    lastSummaryUpdate, \* this.lastSummaryUpdate
    monthlyDataCache,  \* this.monthlyDataCache
    stats,             \* this.stats
    isInitialized,     \* this.isInitialized
    db,                \* this.dbManager.db is non-null
    initPc,            \* position of init()
    pending,           \* calls suspended at their backend write
    settingsWrites,    \* saveSettings calls suspended at their backend write
    listeners,         \* this.events: the listeners of each event, in order
    settingsTimer,     \* the timer of UIManager.debouncedSaveSettings is set
    idb,               \* IndexedDB object store 'transactions'
    idbSettings,       \* IndexedDB object store 'settings', key 'main'
    idbBackup,         \* IndexedDB object store 'backups', latest entry
    ls,                \* localStorage item MAIN_DATA
    lsBackup,          \* localStorage item BACKUP_DATA
    issued,            \* every value generateId has returned
    now,               \* the clock read by new Date()
    calls,             \* the number of calls of changing methods made so far
    failures,          \* IndexedDB requests that have failed
    events,            \* events emitted by the last step, in order
    last,              \* the method that ran last, and how it ended
    dispatch,          \* the emitAsync pass that is suspended at an await
    backups,           \* IndexedDBManager: the entries of the store 'backups'
    added,             \* addTransaction calls that have added a record
    debounced,         \* debounce: the closure of one debounced function
    timeoutId,         \* waitFor: the event whose timeout timer is armed
    filteredTransactions, \* this.filteredTransactions
    defaultCategories, \* the arrays of the exported DEFAULT_CATEGORIES
    aliased            \* the types whose this.categories[type] is that array

vars == <<transactions, categories, filters, summaryCache, lastSummaryUpdate,
          monthlyDataCache, stats, isInitialized, db, initPc, pending,
          settingsWrites, listeners, settingsTimer, idb, idbSettings,
          idbBackup, ls, lsBackup, issued, now, calls, failures, events, last,
          dispatch, backups, added, debounced, timeoutId,
          filteredTransactions, defaultCategories, aliased>>

cacheVars == <<summaryCache, lastSummaryUpdate, monthlyDataCache>>

ledgerVars == <<transactions, categories, filters, cacheVars, stats>>

storageVars == <<idb, idbSettings, idbBackup, backups, ls, lsBackup>>

sessionVars == <<isInitialized, db, initPc, listeners>>

sharedVars == <<defaultCategories, aliased>>

timerVars == <<debounced, timeoutId>>

otherVars == <<dispatch, added, timerVars, filteredTransactions, sharedVars>>

-----------------------------------------------------------------------------
(* Bounds of the model *)

MaxTx == 3        \* records in the collection
MaxPending == 2   \* calls suspended at a backend write at the same time
MaxClock == 1     \* clock values 0..MaxClock
MaxIds == 4       \* values generateId can return in one run
MaxBatch == 3     \* drafts in one addTransactionsBatch call
MaxFailures == 1  \* IndexedDB requests that fail in one run
MaxCalls == 3     \* calls of the changing methods on a ledger in one run
MaxSubscribed == 2  \* listeners subscribed to one event
MaxDepth == 3     \* nested emit calls the call stack holds

-----------------------------------------------------------------------------
(* constants.js *)

INCOME == "income"
EXPENSE == "expense"
TRANSACTION_TYPES == {INCOME, EXPENSE}

Scale == 10                 \* fixed point: one decimal digit
MIN_AMOUNT == 1
MAX_AMOUNT == 99999999
MAX_DESCRIPTION_LENGTH == 200
MAX_CATEGORY_LENGTH == 50
MIN_YEAR == 1900
MAX_YEAR == 2100
AUTO_BACKUP_INTERVAL == 100

Kyuyo == <<"kyu", "yo">>
Bonus == <<"bo", "-", "na", "su">>
Fukugyo == <<"fuku", "gyo">>
Toshi == <<"to", "shi">>
SonotaShunyu == <<"so", "no", "ta", "shu", "nyu">>
Shokuhi == <<"shoku", "hi">>
Kotsuhi == <<"ko", "tsu", "hi">>
Konetsuhi == <<"ko", "netsu", "hi">>
Tsushinhi == <<"tsu", "shin", "hi">>
Goraku == <<"go", "raku">>
Iryohi == <<"i", "ryo", "hi">>
Ifuku == <<"i", "fuku">>
Nichiyohin == <<"nichi", "yo", "hin">>
SonotaShishutsu == <<"so", "no", "ta", "shi", "shutsu">>

DEFAULT_CATEGORIES ==
    [income |-> <<Kyuyo, Bonus, Fukugyo, Toshi, SonotaShunyu>>,
     expense |-> <<Shokuhi, Kotsuhi, Konetsuhi, Tsushinhi, Goraku, Iryohi,
                   Ifuku, Nichiyohin, SonotaShishutsu>>]

Null == <<>>

\* this.filters of a new ledger: { type: '', category: '', month: '' }
NoFilters == [type |-> "", category |-> <<>>, month |-> <<>>]

\* the number n in a field that can also hold null
Num(n) == <<n>>

-----------------------------------------------------------------------------
(* Sequence helpers (Array.prototype methods) *)

Range(s) == {s[i] : i \in DOMAIN s}

Includes(s, x) == \E i \in DOMAIN s : s[i] = x

RECURSIVE SumAmounts(_)
SumAmounts(s) ==
    IF s = <<>> THEN 0 ELSE Head(s).amount + SumAmounts(Tail(s))

\* findIndex: the first index whose record has this id, 0 for -1
FindIndex(s, id) ==
    IF \E i \in DOMAIN s : s[i].id = id
    THEN CHOOSE i \in DOMAIN s :
            s[i].id = id /\ \A j \in 1..(i - 1) : s[j].id # id
    ELSE 0

\* splice(index, 1)
RemoveAt(s, i) == SubSeq(s, 1, i - 1) \o SubSeq(s, i + 1, Len(s))

-----------------------------------------------------------------------------
(* Sanitizer *)

WHITESPACE == {" "}

\* the characters of the model's alphabet that the class
\* [^\w hiragana katakana kanji \- _ \s] of sanitizeCategory matches
DisallowedCategoryChars == {"<", ">", "!", "@"}

\* sanitizeHTML, last replacement: /<[^>]*>/g.  The alphabet holds none of
\* '/', ':' and '=', so the earlier replacements (script, iframe, object,
\* embed, style blocks, 'javascript:', 'on...=') match nothing that the
\* last one does not also remove.
RECURSIVE sanitizeHTML(_)
sanitizeHTML(s) ==
    IF s = <<>> THEN <<>>
    ELSE IF Head(s) = "<" /\ \E i \in 2..Len(s) : s[i] = ">"
         THEN LET close == CHOOSE i \in 2..Len(s) :
                              s[i] = ">" /\ \A j \in 2..(i - 1) : s[j] # ">"
              IN  sanitizeHTML(SubSeq(s, close + 1, Len(s)))
         ELSE <<Head(s)>> \o sanitizeHTML(Tail(s))

RECURSIVE TrimStart(_)
TrimStart(s) ==
    IF s # <<>> /\ Head(s) \in WHITESPACE THEN TrimStart(Tail(s)) ELSE s

RECURSIVE TrimEnd(_)
TrimEnd(s) ==
    IF s # <<>> /\ s[Len(s)] \in WHITESPACE
    THEN TrimEnd(SubSeq(s, 1, Len(s) - 1)) ELSE s

Trim(s) == TrimEnd(TrimStart(s))

Substring0(s, n) == IF Len(s) > n THEN SubSeq(s, 1, n) ELSE s

sanitizeDescription(description) ==
    IF description = <<>> THEN <<>>
    ELSE Trim(Substring0(sanitizeHTML(description), MAX_DESCRIPTION_LENGTH))

IsAllowedCategoryChar(c) == c \notin DisallowedCategoryChars

sanitizeCategory(category) ==
    IF category = <<>> THEN <<>>
    ELSE Trim(Substring0(SelectSeq(sanitizeHTML(category), IsAllowedCategoryChar),
                         MAX_CATEGORY_LENGTH))

\* raw amounts: a JavaScript number (or a string parseFloat reads as that
\* number), or NaN
RawNum(v) == [nan |-> FALSE, v |-> v]
RawNaN == [nan |-> TRUE, v |-> 0]

\* Math.round on a fixed-point number: floor(x + 0.5)
MathRound(v) == ((v + (Scale \div 2)) \div Scale) * Scale

sanitizeAmount(amount) ==
    IF amount.nan THEN 0
    ELSE IF amount.v < MIN_AMOUNT * Scale THEN MIN_AMOUNT * Scale
    ELSE IF amount.v > MAX_AMOUNT * Scale THEN MAX_AMOUNT * Scale
    ELSE MathRound(amount.v)

IsLeap(y) == (y % 4 = 0 /\ y % 100 # 0) \/ y % 400 = 0

DaysInMonth(y, m) ==
    IF m = 2 THEN (IF IsLeap(y) THEN 29 ELSE 28)
    ELSE IF m \in {4, 6, 9, 11} THEN 30 ELSE 31

\* new Date("YYYY-MM-DD") is a valid date
IsValidDate(date) ==
    /\ date[2] \in 1..12
    /\ date[3] \in 1..DaysInMonth(date[1], date[2])

sanitizeDate(dateString) ==
    IF dateString = <<>> THEN <<>>
    ELSE IF ~IsValidDate(dateString) THEN <<>>
    ELSE IF dateString[1] < MIN_YEAR \/ dateString[1] > MAX_YEAR THEN <<>>
    ELSE dateString

\* transactionData.field; a property the object lacks reads undefined, which
\* the sanitizers treat like the empty string (date, category, description:
\* falsy), like NaN (amount: isNaN(undefined)) and like no type
Prop(obj, field) ==
    IF field \in DOMAIN obj THEN obj[field]
    ELSE IF field = "amount" THEN RawNaN
    ELSE IF field = "type" THEN ""
    ELSE <<>>

\* validateAndSanitizeTransaction: errors holds the names of the fields
\* whose message was pushed; sanitizedData is read only when isValid
validateAndSanitizeTransaction(transactionData) ==
    LET sanitizedDate == sanitizeDate(Prop(transactionData, "date"))
        type == Prop(transactionData, "type")
        sanitizedCategory == sanitizeCategory(Prop(transactionData, "category"))
        sanitizedAmount == sanitizeAmount(Prop(transactionData, "amount"))
        errors ==
            (IF sanitizedDate = <<>> THEN <<"date">> ELSE <<>>)
            \o (IF type = "" \/ type \notin TRANSACTION_TYPES
                THEN <<"type">> ELSE <<>>)
            \o (IF sanitizedCategory = <<>> THEN <<"category">> ELSE <<>>)
            \o (IF sanitizedAmount < MIN_AMOUNT * Scale
                THEN <<"amount">> ELSE <<>>)
    IN  [isValid |-> errors = <<>>,
         sanitizedData |->
            [date |-> sanitizedDate,
             type |-> type,
             category |-> sanitizedCategory,
             amount |-> sanitizedAmount,
             description |->
                sanitizeDescription(Prop(transactionData, "description"))],
         errors |-> errors]

-----------------------------------------------------------------------------
(* Inputs *)

Jan10 == <<2025, 1, 10>>
Feb11 == <<2025, 2, 11>>
Month13 == <<2025, 13, 1>>

Zatsu == <<"zatsu">>      \* a category name that no default list holds

\* the drafts handed to addTransaction and addTransactionsBatch
DraftSalary ==
    [date |-> Jan10, type |-> INCOME, category |-> Kyuyo,
     amount |-> RawNum(30), description |-> <<>>]
DraftFood ==
    [date |-> Feb11, type |-> EXPENSE,
     category |-> <<" ", "<", "b", ">", "shoku", "!", "hi">>,
     amount |-> RawNum(15), description |-> <<"<", "i", ">", "n", " ">>]
DraftNegative ==
    [date |-> Jan10, type |-> EXPENSE, category |-> Shokuhi,
     amount |-> RawNum(0 - 50), description |-> <<>>]
DraftUnregistered ==
    [date |-> Jan10, type |-> EXPENSE, category |-> Zatsu,
     amount |-> RawNum(30), description |-> <<>>]
DraftNaN ==
    [date |-> Jan10, type |-> EXPENSE, category |-> Shokuhi,
     amount |-> RawNaN, description |-> <<>>]
DraftBadDate ==
    [date |-> Month13, type |-> INCOME, category |-> Kyuyo,
     amount |-> RawNum(30), description |-> <<>>]
DraftBadType ==
    [date |-> Jan10, type |-> "transfer", category |-> Kyuyo,
     amount |-> RawNum(30), description |-> <<>>]
DraftNoCategory ==
    [date |-> Jan10, type |-> EXPENSE, category |-> <<"<", "b", ">", "!">>,
     amount |-> RawNum(30), description |-> <<>>]

Drafts == {DraftSalary, DraftFood, DraftNegative, DraftUnregistered,
           DraftNaN, DraftBadDate, DraftBadType, DraftNoCategory}

\* the patches handed to updateTransaction
PatchAmount == [amount |-> RawNum(70)]
PatchNaN == [amount |-> RawNaN]
PatchIdentity == [id |-> 0, createdAt |-> 0 - 1, type |-> INCOME]

Patches == {PatchAmount, PatchNaN, PatchIdentity}

Ids == 1..MaxIds

\* the arguments of addCategory and removeCategory: a replacement the
\* Sanitizer empties stands for every string made of markup and punctuation
EmptiedReplacement == <<"<", "b", ">", "!">>
Replacements == {Null, Kotsuhi, EmptiedReplacement}
RemovedCategoryNames == {Shokuhi, Kotsuhi}

\* the arguments of applyFilters
FilterExpense == [type |-> EXPENSE]
FilterFood == [category |-> Shokuhi, month |-> <<2025, 2>>]
FilterInputs == {FilterExpense, FilterFood}
NewCategoryNames == {Zatsu, Shokuhi, EmptiedReplacement}

\* the arrays handed to addTransactionsBatch: every array of accepted and
\* rejected rows, and one with a negative amount between two accepted rows
NegativeBatch == <<DraftSalary, DraftNegative, DraftSalary>>

BatchInputs ==
    UNION {[1..n -> {DraftSalary, DraftNaN}] : n \in 0..MaxBatch}
        \cup {NegativeBatch}

-----------------------------------------------------------------------------
(* HouseholdBudgetData: state functions *)

\* UTILS.generateId: crypto.randomUUID(), or 122 random bits drawn from
\* Math.random.  The result depends on no field of the ledger.  The model
\* takes the generator at its contract, a value it has not returned before,
\* and names that value by the number of the draw (ids are opaque, so one
\* representative of the unissued values stands for all of them).
\* a generator that only avoids the ids in the collection
generateIdAmongStored(issuedIds, storedIds) ==
    {id \in Ids : id \notin storedIds /\ \A j \in Ids \ storedIds : id <= j}

generateId(issuedIds, storedIds) ==
    {id \in Ids : id \notin issuedIds /\ \A j \in Ids \ issuedIds : id <= j}

generateUniqueId(issuedIds, storedIds) == generateId(issuedIds, storedIds)

\* { id: ..., ...validation.sanitizedData, createdAt: ..., updatedAt: ... }
NewTransaction(id, sanitizedData, t) ==
    [id |-> id,
     date |-> sanitizedData.date,
     type |-> sanitizedData.type,
     category |-> sanitizedData.category,
     amount |-> sanitizedData.amount,
     description |-> sanitizedData.description,
     createdAt |-> t,
     updatedAt |-> t]

\* this.transactions.push(transaction)
\* a push that drops what was stored before
PushOntoEmpty(txs, tx) == <<tx>>

Push(txs, tx) == Append(txs, tx)

DateNum(date) == date[1] * 10000 + date[2] * 100 + date[3]

MinDate(txs) ==
    CHOOSE d \in {txs[i].date : i \in DOMAIN txs} :
        \A i \in DOMAIN txs : DateNum(d) <= DateNum(txs[i].date)

MaxDate(txs) ==
    CHOOSE d \in {txs[i].date : i \in DOMAIN txs} :
        \A i \in DOMAIN txs : DateNum(d) >= DateNum(txs[i].date)

updateStats(st, txs, t) ==
    [st EXCEPT !.totalTransactions = Len(txs),
               !.lastModified = Num(t),
               !.oldestTransaction = IF Len(txs) > 0 THEN MinDate(txs) ELSE @,
               !.newestTransaction = IF Len(txs) > 0 THEN MaxDate(txs) ELSE @]

\* an invalidation that forgets the monthly cache
invalidateSummaryOnly(sc, lsu, mdc) ==
    [summaryCache |-> Null, lastSummaryUpdate |-> Null, monthlyDataCache |-> mdc]

\* invalidateCache: the three fields after the call
invalidateCache(sc, lsu, mdc) ==
    [summaryCache |-> Null, lastSummaryUpdate |-> Null, monthlyDataCache |-> <<>>]

toSaveFormat(txs, cats, flt, st, t) ==
    [version |-> "2.0.0", timestamp |-> t, transactions |-> txs,
     categories |-> cats, filters |-> flt, stats |-> st]

\* the ids of the records of a collection
IdsOf(txs) == {txs[i].id : i \in DOMAIN txs}

\* store.getAll(): the records of the object store in key order
RECURSIVE GetAll(_)
GetAll(store) ==
    IF store = {} THEN <<>>
    ELSE LET first == CHOOSE r \in store : \A q \in store : r.id <= q.id
         IN  <<first>> \o GetAll(store \ {first})

\* store.put(record) and store.delete(id) on the store keyed by id
StorePut(store, tx) == {r \in store : r.id # tx.id} \cup {tx}
StoreDelete(store, id) == {r \in store : r.id # id}

-----------------------------------------------------------------------------
(* Steps *)

\* how a method ended: "resolved", "throw" (a rejected promise), or
\* "suspended" at its backend write; value is what it returned where a claim
\* reads it
Step(op, res, value) == [op |-> op, res |-> res, value |-> value]

\* this.listeners(event)
Listeners(event) ==
    IF event \in DOMAIN listeners THEN listeners[event] ELSE <<>>

\* the listener UIManager.bindDataEvents subscribes to 'dataChanged':
\* updateSummary(); debouncedSaveSettings()
UiListener == "ui"

\* the step emits evs, in order: a 'dataChanged' that reaches the listener of
\* the UI sets the debounce timer (clearTimeout; setTimeout)
Emit(evs) ==
    /\ events' = evs
    /\ settingsTimer' =
          (settingsTimer
             \/ (Includes(evs, "dataChanged")
                   /\ Includes(Listeners("dataChanged"), UiListener)))

\* the store 'backups' before its first entry: no entry, the key generator
\* at its start, no cleanup transaction queued, no add requested
NoBackups == [store |-> {}, key |-> 0, cleanups |-> 0, requests |-> 0]

Init ==
    /\ transactions = <<>>
    /\ categories = DEFAULT_CATEGORIES
    /\ filters = NoFilters
    /\ summaryCache = Null
    /\ lastSummaryUpdate = Null
    /\ monthlyDataCache = <<>>
    /\ stats = [totalTransactions |-> 0, lastModified |-> Null, createdAt |-> 0,
                oldestTransaction |-> Null, newestTransaction |-> Null]
    /\ isInitialized = FALSE
    /\ db = FALSE
    /\ initPc = "new"
    /\ pending = <<>>
    /\ settingsWrites = <<>>
    /\ listeners = <<>>
    /\ settingsTimer = FALSE
    /\ idb = {}
    /\ idbSettings = Null
    /\ idbBackup = Null
    /\ ls = Null
    /\ lsBackup = Null
    /\ issued = {}
    /\ now = 0
    /\ dispatch = Null
    /\ backups = NoBackups
    /\ added = Cardinality(issued)
    /\ debounced = Null
    /\ timeoutId = Null
    /\ filteredTransactions = <<>>
    /\ defaultCategories = DEFAULT_CATEGORIES
    /\ aliased = TRANSACTION_TYPES
    /\ calls = 0
    /\ failures = 0
    /\ events = <<>>
    /\ last = Step("constructor", "resolved", Null)

\* what an earlier session left in the two stores: one record, in IndexedDB,
\* in the localStorage snapshot, in both or in neither
StoredTransaction ==
    NewTransaction(1, validateAndSanitizeTransaction(DraftSalary).sanitizedData, 0)
StoredStats ==
    [totalTransactions |-> 1, lastModified |-> Num(0), createdAt |-> 0,
     oldestTransaction |-> Jan10, newestTransaction |-> Jan10]
StoredSnapshot ==
    toSaveFormat(<<StoredTransaction>>, DEFAULT_CATEGORIES, NoFilters,
                 StoredStats, 0)

\* a new ledger over stores that an earlier session has written
InitStored ==
    /\ transactions = <<>>
    /\ categories = DEFAULT_CATEGORIES
    /\ filters = NoFilters
    /\ summaryCache = Null
    /\ lastSummaryUpdate = Null
    /\ monthlyDataCache = <<>>
    /\ stats = [totalTransactions |-> 0, lastModified |-> Null, createdAt |-> 0,
                oldestTransaction |-> Null, newestTransaction |-> Null]
    /\ isInitialized = FALSE
    /\ db = FALSE
    /\ initPc = "new"
    /\ pending = <<>>
    /\ settingsWrites = <<>>
    /\ listeners = <<>>
    /\ settingsTimer = FALSE
    /\ idb \in {{}, {StoredTransaction}}
    /\ idbSettings = Null
    /\ idbBackup = Null
    /\ ls \in {Null, StoredSnapshot}
    /\ lsBackup = Null
    /\ issued = {StoredTransaction.id}
    /\ now = 0
    /\ dispatch = Null
    /\ backups = NoBackups
    /\ added = Cardinality(issued)
    /\ debounced = Null
    /\ timeoutId = Null
    /\ filteredTransactions = <<>>
    /\ defaultCategories = DEFAULT_CATEGORIES
    /\ aliased = TRANSACTION_TYPES
    /\ calls = 0
    /\ failures = 0
    /\ events = <<>>
    /\ last = Step("constructor", "resolved", Null)

\* a snapshot whose registry and filters differ from the defaults, as handed
\* to fromSaveFormat by an import or a restore
EditedSnapshot ==
    toSaveFormat(<<StoredTransaction>>,
                 [DEFAULT_CATEGORIES EXCEPT ![EXPENSE] = Append(@, Zatsu)],
                 [NoFilters EXCEPT !.type = EXPENSE], StoredStats, 0)

\* the clock advances between two steps
Tick ==
    /\ now < MaxClock
    /\ now' = now + 1
    /\ UNCHANGED <<ledgerVars, storageVars, sessionVars, pending,
                   settingsWrites, issued, calls, failures, events,
                   settingsTimer, last, otherVars>>

\* The application awaits dataManager.init() before it builds the UI that
\* calls the ledger; a run makes at most MaxCalls calls of the methods that
\* change the ledger or its storage, and any number of calculateSummary and
\* getMonthlyData
CallsAccepted == initPc = "done" /\ calls < MaxCalls

\* the write guard of every mutating method: this.isInitialized && this.dbManager.db
WritesToIndexedDB == isInitialized /\ db

\* IndexedDBManager.createBackup, when the add succeeds: the entry takes the
\* next key of the autoIncrement store and the timestamp of the clock, and
\* onsuccess calls cleanupOldBackups(), which waits for its own readwrite
\* transaction, before it resolves
createBackup(held, t) ==
    [store |-> held.store \cup {[id |-> held.key + 1, timestamp |-> t]},
     key |-> held.key + 1,
     cleanups |-> held.cleanups + 1,
     requests |-> held.requests + 1]

\* IndexedDBManager.createBackup, when the add fails: the promise rejects,
\* the store is as it was
createBackupRejected(held) == [held EXCEPT !.requests = @ + 1]

\* createAutoBackup, called with the state the caller has reached: the
\* snapshot is cloned into the request when dbManager.createBackup is called,
\* and nothing follows the await but a log line.  stored is whether the write
\* succeeds.
CreateAutoBackup(txs, cats, st, stored) ==
    LET backup == [timestamp |-> now, data |-> toSaveFormat(txs, cats, filters, st, now)]
    IN  IF WritesToIndexedDB
        THEN /\ idbBackup' = IF stored THEN backup ELSE idbBackup
             /\ backups' = IF stored THEN createBackup(backups, now)
                           ELSE createBackupRejected(backups)
             /\ lsBackup' = lsBackup
        ELSE /\ lsBackup' = IF stored THEN backup ELSE lsBackup
             /\ UNCHANGED <<idbBackup, backups>>

\* the tail every mutating method runs after its backend write:
\* invalidateCache(); updateStats(); [auto backup;] emit(...)
Finish(txs, autoBackup, evs) ==
    LET inv == invalidateCache(summaryCache, lastSummaryUpdate, monthlyDataCache)
    IN  /\ summaryCache' = inv.summaryCache
        /\ lastSummaryUpdate' = inv.lastSummaryUpdate
        /\ monthlyDataCache' = inv.monthlyDataCache
        /\ stats' = updateStats(stats, txs, now)
        /\ IF autoBackup /\ Len(txs) % AUTO_BACKUP_INTERVAL = 0
           THEN \E stored \in BOOLEAN :
                    CreateAutoBackup(txs, categories, stats', stored)
           ELSE UNCHANGED <<idbBackup, backups, lsBackup>>
        /\ Emit(evs)

EventsOf(kind) ==
    IF kind = "addTransaction" THEN <<"transactionAdded", "dataChanged">>
    ELSE IF kind = "updateTransaction" THEN <<"transactionUpdated", "dataChanged">>
    ELSE IF kind = "deleteTransaction" THEN <<"transactionDeleted", "dataChanged">>
    ELSE IF kind = "addTransactionsBatch"
         THEN <<"transactionsBatchAdded", "dataChanged">>
    ELSE <<"dataCleared", "dataChanged">>

\* a method throws, or returns early, before it has touched anything
NoEffect(op, res) ==
    /\ calls' = calls + 1
    /\ last' = Step(op, res, Null)
    /\ Emit(<<>>)
    /\ UNCHANGED <<ledgerVars, storageVars, sessionVars, pending,
                   settingsWrites, issued, now, otherVars, failures>>

\* what follows the change of this.transactions in a mutating method: with
\* IndexedDB the method suspends at the write of payload; without, it runs
\* to its end in the same step
Persist(op, payload, value) ==
    /\ calls' = calls + 1
    /\ UNCHANGED settingsWrites
    /\ IF WritesToIndexedDB
       THEN /\ Len(pending) < MaxPending
            /\ pending' = Append(pending, [kind |-> op, payload |-> payload,
                                           value |-> value])
            /\ last' = Step(op, "suspended", Null)
            /\ Emit(<<>>)
            /\ UNCHANGED <<cacheVars, stats, idbBackup, backups, lsBackup>>
       ELSE /\ Finish(transactions', op = "addTransaction", EventsOf(op))
            /\ last' = Step(op, "resolved", value)
            /\ UNCHANGED pending

-----------------------------------------------------------------------------
(* addTransaction, updateTransaction, deleteTransaction,
   addTransactionsBatch, clearAllData *)

\* a test that lets a draft through when only its amount is in error
IsRejectedUnlessAmount(validation) ==
    ~validation.isValid /\ validation.errors # <<"amount">>

\* addTransaction and updateTransaction throw on this validation result
IsRejected(validation) == ~validation.isValid

\* the lengths at which a run adds a record: fewer than MaxTx records in the
\* collection, or fewer than MaxTx records either side of a multiple of the
\* backup interval
Room(txs) ==
    LET beyond == Len(txs) % AUTO_BACKUP_INTERVAL
    IN  beyond < MaxTx \/ beyond >= AUTO_BACKUP_INTERVAL - MaxTx

\* addTransaction(transactionData) from its first statement on, whatever
\* init() has done so far
AddTransactionCall(d) ==
    LET validation == validateAndSanitizeTransaction(d)
    IN  /\ calls < MaxCalls
        /\ IF IsRejected(validation)
           THEN NoEffect("addTransaction", "throw")
           ELSE /\ Room(transactions)
                /\ \E id \in generateUniqueId(issued, IdsOf(transactions)) :
                      LET tx == NewTransaction(id, validation.sanitizedData, now)
                      IN  /\ transactions' = Push(transactions, tx)
                          /\ issued' = issued \cup {id}
                          /\ Persist("addTransaction", tx, tx)
                /\ added' = added + 1
                /\ UNCHANGED timerVars
                /\ UNCHANGED <<categories, filters, idb, idbSettings, ls,
                               sessionVars, now, dispatch,
                               filteredTransactions, sharedVars, failures>>

\* addTransaction called on the initialised ledger
AddTransaction(d) == CallsAccepted /\ AddTransactionCall(d)

\* addTransaction called after init() has been called and before it has
\* resolved: isInitialized is false, so nothing is written and the call
\* resolves in its own step
AddTransactionDuringInit(d) ==
    /\ initPc \in {"opening", "loadingTransactions", "loadingSettings"}
    /\ AddTransactionCall(d)

\* a stored record read as input of the sanitizer: its amount is a number
AsData(tx) == [tx EXCEPT !.amount = RawNum(tx.amount)]

\* { ...currentTransaction, ...updates }
MergeUpdates(currentTransaction, updates) ==
    LET cur == AsData(currentTransaction)
    IN  [f \in DOMAIN cur \cup DOMAIN updates |->
            IF f \in DOMAIN updates THEN updates[f] ELSE cur[f]]

\* a replacement that stamps the record as if it were new
UpdatedTransactionRestamped(sanitizedData, id, currentTransaction, t) ==
    [id |-> id,
     date |-> sanitizedData.date,
     type |-> sanitizedData.type,
     category |-> sanitizedData.category,
     amount |-> sanitizedData.amount,
     description |-> sanitizedData.description,
     createdAt |-> t,
     updatedAt |-> t]

\* { ...validation.sanitizedData, id, createdAt: currentTransaction.createdAt,
\*   updatedAt: new Date().toISOString() }
UpdatedTransaction(sanitizedData, id, currentTransaction, t) ==
    [id |-> id,
     date |-> sanitizedData.date,
     type |-> sanitizedData.type,
     category |-> sanitizedData.category,
     amount |-> sanitizedData.amount,
     description |-> sanitizedData.description,
     createdAt |-> currentTransaction.createdAt,
     updatedAt |-> t]

UpdateTransaction(id, updates) ==
    LET index == FindIndex(transactions, id)
    IN  /\ CallsAccepted
        /\ IF index = 0
           THEN NoEffect("updateTransaction", "throw")
           ELSE LET currentTransaction == transactions[index]
                    validation == validateAndSanitizeTransaction(
                                      MergeUpdates(currentTransaction, updates))
                    updated == UpdatedTransaction(validation.sanitizedData, id,
                                                  currentTransaction, now)
                IN  IF IsRejected(validation)
                    THEN NoEffect("updateTransaction", "throw")
                    ELSE /\ transactions' = [transactions EXCEPT ![index] = updated]
                         /\ Persist("updateTransaction", updated, updated)
                         /\ UNCHANGED <<categories, filters, idb, idbSettings,
                                        ls, sessionVars, issued, now, otherVars, failures>>

\* a test that never reports a missing id
NotFoundNever(index) == FALSE

\* deleteTransaction returns null without touching anything at this index
NotFound(index) == index = 0

\* a splice that removes nothing
NotSpliced(txs, index) == txs

\* splice(index, 1); an index of -1 counts from the end
Splice1(txs, index) ==
    IF index = 0 THEN SubSeq(txs, 1, Len(txs) - 1) ELSE RemoveAt(txs, index)

\* splice(index, 1)[0]
Removed(txs, index) ==
    LET k == IF index = 0 THEN Len(txs) ELSE index
    IN  IF k = 0 THEN Null ELSE txs[k]

DeleteTransaction(id) ==
    LET index == FindIndex(transactions, id)
    IN  /\ CallsAccepted
        /\ IF NotFound(index)
           THEN NoEffect("deleteTransaction", "resolved")
           ELSE /\ transactions' = Splice1(transactions, index)
                /\ Persist("deleteTransaction", [id |-> id],
                           Removed(transactions, index))
                /\ UNCHANGED <<categories, filters, idb, idbSettings, ls,
                               sessionVars, issued, now, otherVars, failures>>

\* a loop that stops at the first row in error
RECURSIVE BatchValidateUntilError(_, _, _, _)
BatchValidateUntilError(drafts, i, issuedIds, t) ==
    IF i > Len(drafts) THEN [added |-> <<>>, errors |-> <<>>]
    ELSE LET validation == validateAndSanitizeTransaction(drafts[i])
         IN  IF validation.isValid
             THEN LET id == CHOOSE x \in generateUniqueId(issuedIds, {}) : TRUE
                      rest == BatchValidateUntilError(drafts, i + 1,
                                                      issuedIds \cup {id}, t)
                  IN  [rest EXCEPT !.added =
                        <<NewTransaction(id, validation.sanitizedData, t)>> \o @]
             ELSE [added |-> <<>>, errors |-> <<i>>]

\* the validation loop of addTransactionsBatch over drafts[i..]: the valid
\* rows as records, with ids drawn in row order, and the rows in error
RECURSIVE BatchValidate(_, _, _, _)
BatchValidate(drafts, i, issuedIds, t) ==
    IF i > Len(drafts) THEN [added |-> <<>>, errors |-> <<>>]
    ELSE LET validation == validateAndSanitizeTransaction(drafts[i])
         IN  IF validation.isValid
             THEN LET id == CHOOSE x \in generateUniqueId(issuedIds, {}) : TRUE
                      rest == BatchValidate(drafts, i + 1, issuedIds \cup {id}, t)
                  IN  [rest EXCEPT !.added =
                        <<NewTransaction(id, validation.sanitizedData, t)>> \o @]
             ELSE LET rest == BatchValidate(drafts, i + 1, issuedIds, t)
                  IN  [rest EXCEPT !.errors = <<i>> \o @]

AddTransactionsBatch(drafts) ==
    /\ CallsAccepted
    /\ Len(drafts) <= Cardinality(Ids \ issued)
    /\ \E r \in {BatchValidate(drafts, 1, issued, now)} :
          /\ Len(transactions) + Len(r.added) <= MaxTx
          /\ IF Len(r.added) = 0
             THEN NoEffect("addTransactionsBatch", "throw")
             ELSE /\ transactions' = transactions \o r.added
                  /\ issued' = issued \cup IdsOf(r.added)
                  /\ Persist("addTransactionsBatch", r.added, r)
                  /\ UNCHANGED <<categories, filters, idb, idbSettings, ls,
                                 sessionVars, now, otherVars, failures>>

\* clearAllData: localStorage.removeItem runs after the IndexedDB write
ClearAllData ==
    /\ CallsAccepted
    /\ transactions' = <<>>
    /\ Persist("clearAllData", Null, Null)
    /\ ls' = IF WritesToIndexedDB THEN ls ELSE Null
    /\ filteredTransactions' = <<>>
    /\ UNCHANGED <<categories, filters, idb, idbSettings, sessionVars, issued,
                   now, dispatch, added, timerVars, sharedVars, failures>>

-----------------------------------------------------------------------------
(* saveSettings, addCategory, removeCategory *)

\* the object saveSettings hands to dbManager.saveSettings
SettingsOf(cats, flt, st) == [categories |-> cats, filters |-> flt, stats |-> st]

\* a fallback that writes nothing
saveToLocalStorageNothing(txs, cats, flt, st, t) == ls

\* saveToLocalStorage(): the item MAIN_DATA after the call
saveToLocalStorage(txs, cats, flt, st, t) == toSaveFormat(txs, cats, flt, st, t)

\* saveSettings(), called with the state the caller has reached: with
\* IndexedDB the put is requested at once and the call suspends; without, the
\* snapshot is written to localStorage in the same step
SaveSettings(txs, cats, flt, st) ==
    IF ~isInitialized THEN UNCHANGED <<settingsWrites, ls>>
    ELSE IF db
         THEN /\ Len(settingsWrites) < MaxPending
              /\ settingsWrites' = Append(settingsWrites, SettingsOf(cats, flt, st))
              /\ UNCHANGED ls
         ELSE /\ ls' = saveToLocalStorage(txs, cats, flt, st, now)
              /\ UNCHANGED settingsWrites

\* settingsWrites[i] settles; on failure the catch block of saveSettings runs
\* saveToLocalStorage()
CompleteSettingsWrite(i, ok) ==
    /\ initPc \in {"done", "destroyed"}
    /\ ok \/ failures < MaxFailures
    /\ failures' = IF ok THEN failures ELSE failures + 1
    /\ settingsWrites' = RemoveAt(settingsWrites, i)
    /\ idbSettings' = IF ok THEN settingsWrites[i] ELSE idbSettings
    /\ ls' = IF ok THEN ls
             ELSE saveToLocalStorage(transactions, categories, filters, stats, now)
    /\ last' = Step("saveSettings", "resolved", Null)
    /\ Emit(<<>>)
    /\ UNCHANGED <<ledgerVars, sessionVars, pending, idb, idbBackup, backups, lsBackup,
                   issued, now, otherVars, calls>>

\* this.categories[type].push(sanitizedName)
\* this.categories = { ...DEFAULT_CATEGORIES } copies the two properties, not
\* the arrays: while this.categories[type] is the array of DEFAULT_CATEGORIES,
\* this.categories[type].push(name) appends to the exported default as well
PushedThrough(defaults, shared, type, name) ==
    IF type \in shared THEN [defaults EXCEPT ![type] = Append(@, name)]
    ELSE defaults

AddCategory(type, categoryName) ==
    LET sanitizedName == sanitizeCategory(categoryName)
        cats == [categories EXCEPT ![type] = Append(@, sanitizedName)]
    IN  /\ CallsAccepted
        /\ IF sanitizedName = <<>> \/ Includes(categories[type], sanitizedName)
           THEN NoEffect("addCategory", "throw")
           ELSE /\ calls' = calls + 1
                /\ categories' = cats
                /\ defaultCategories' =
                      PushedThrough(defaultCategories, aliased, type,
                                    sanitizedName)
                /\ SaveSettings(transactions, cats, filters, stats)
                /\ Emit(<<"categoryAdded">>)
                /\ last' = Step("addCategory", "resolved", Null)
                /\ UNCHANGED <<transactions, filters, cacheVars, stats,
                               sessionVars, pending, idb, idbSettings,
                               idbBackup, backups, lsBackup, issued, now,
                               dispatch, added, timerVars, filteredTransactions, aliased,
                               failures>>

\* the indexes of relatedTransactions
Related(txs, type, categoryName) ==
    {i \in DOMAIN txs : txs[i].type = type /\ txs[i].category = categoryName}

\* a test that lets every removal through
CategoryInUseNever(count, replacementCategory) == FALSE

\* relatedTransactions.length > 0 && !replacementCategory
CategoryInUse(count, replacementCategory) ==
    count > 0 /\ replacementCategory = Null

\* the validation inside updateTransaction(t.id, { category: replacement })
ReassignValidation(tx, replacementCategory) ==
    validateAndSanitizeTransaction(
        MergeUpdates(tx, [category |-> replacementCategory]))

\* the related records whose updateTransaction call gets past its validation;
\* the other calls reject, and nothing handles the rejection
Reassignable(txs, related, replacementCategory) ==
    {i \in related : ~IsRejected(ReassignValidation(txs[i], replacementCategory))}

\* the collection after the synchronous part of every updateTransaction call
\* of the forEach; the ids of the stored records are distinct, so that
\* findIndex(t.id) is the index of t
Reassigned(txs, related, replacementCategory, t) ==
    [i \in DOMAIN txs |->
        IF i \in Reassignable(txs, related, replacementCategory)
        THEN UpdatedTransaction(
                 ReassignValidation(txs[i], replacementCategory).sanitizedData,
                 txs[i].id, txs[i], t)
        ELSE txs[i]]

\* the updateTransaction calls of the forEach that suspend at their write
ReassignCalls(txs, ok) ==
    SelectSeq([i \in DOMAIN txs |->
                  IF i \in ok
                  THEN [kind |-> "updateTransaction", payload |-> txs[i],
                        value |-> txs[i]]
                  ELSE Null],
              LAMBDA call : call # Null)

RECURSIVE Repeat(_, _)
Repeat(s, n) == IF n = 0 THEN <<>> ELSE s \o Repeat(s, n - 1)

\* this.categories[type].filter(c => c !== categoryName)
WithoutCategory(cats, type, categoryName) ==
    [cats EXCEPT ![type] = SelectSeq(@, LAMBDA c : c # categoryName)]

\* removeCategory(type, categoryName, replacementCategory): not async.  Every
\* callback of the forEach runs updateTransaction up to its first await: with
\* IndexedDB that is the write, without it the call runs to its end and
\* emits.  removeCategory goes on without waiting for any of them.
RemoveCategory(type, categoryName, replacementCategory) ==
    LET related == Related(transactions, type, categoryName)
        count == Cardinality(related)
        ok == Reassignable(transactions, related, replacementCategory)
        txs == Reassigned(transactions, related, replacementCategory, now)
        cats == WithoutCategory(categories, type, categoryName)
        inv == invalidateCache(summaryCache, lastSummaryUpdate, monthlyDataCache)
        ran == ~WritesToIndexedDB /\ ok # {}
        st == IF ran THEN updateStats(stats, txs, now) ELSE stats
    IN  /\ CallsAccepted
        /\ calls' = calls + 1
        /\ IF CategoryInUse(count, replacementCategory)
           THEN /\ last' = Step("removeCategory", "throw", [count |-> count])
                /\ Emit(<<>>)
                /\ UNCHANGED <<ledgerVars, storageVars, sessionVars, pending,
                               settingsWrites, issued, now, otherVars, failures>>
           ELSE /\ transactions' = txs
                /\ IF WritesToIndexedDB
                   THEN /\ Len(pending) + Cardinality(ok) <= MaxPending
                        /\ pending' = pending \o ReassignCalls(txs, ok)
                   ELSE UNCHANGED pending
                /\ summaryCache' = IF ran THEN inv.summaryCache ELSE summaryCache
                /\ lastSummaryUpdate' = IF ran THEN inv.lastSummaryUpdate
                                               ELSE lastSummaryUpdate
                /\ monthlyDataCache' = IF ran THEN inv.monthlyDataCache
                                              ELSE monthlyDataCache
                /\ stats' = st
                /\ categories' = cats
                /\ aliased' = aliased \ {type}
                /\ SaveSettings(txs, cats, filters, st)
                /\ Emit((IF WritesToIndexedDB THEN <<>>
                         ELSE Repeat(EventsOf("updateTransaction"),
                                     Cardinality(ok)))
                        \o <<"categoryRemoved", "dataChanged">>)
                /\ last' = Step("removeCategory", "resolved", [count |-> count])
                /\ UNCHANGED <<filters, sessionVars, idb, idbSettings,
                               idbBackup, backups, lsBackup, issued, now,
                               dispatch, added, timerVars, filteredTransactions,
                               defaultCategories, failures>>

\* { ...this.filters, ...filters }
MergeFilters(flt, given) ==
    [f \in DOMAIN flt \cup DOMAIN given |->
        IF f \in DOMAIN given THEN given[f] ELSE flt[f]]

\* the callback of this.transactions.filter: a field of the filters that is
\* falsy matches every record
MatchesFilters(tx, flt) ==
    /\ flt.type = "" \/ tx.type = flt.type
    /\ flt.category = <<>> \/ tx.category = flt.category
    /\ flt.month = <<>> \/ <<tx.date[1], tx.date[2]>> = flt.month

\* a view left in the order of the collection
NotSorted(txs) == txs

\* sort((a, b) => new Date(b.date) - new Date(a.date)): later dates first,
\* records of one date in the order they had (the sort is stable)
RECURSIVE SortByDateDescending(_)
SortByDateDescending(txs) ==
    IF Len(txs) = 0 THEN <<>>
    ELSE LET rest == SortByDateDescending(Tail(txs))
             later == Cardinality({i \in DOMAIN rest :
                         DateNum(rest[i].date) > DateNum(Head(txs).date)})
         IN  SubSeq(rest, 1, later) \o <<Head(txs)>>
                \o SubSeq(rest, later + 1, Len(rest))

\* applyFilters(filters)
ApplyFilters(given) ==
    LET flt == MergeFilters(filters, given)
    IN  /\ CallsAccepted
        /\ calls' = calls + 1
        /\ filters' = flt
        /\ filteredTransactions' =
              SortByDateDescending(
                  SelectSeq(transactions, LAMBDA tx : MatchesFilters(tx, flt)))
        /\ SaveSettings(transactions, categories, flt, stats)
        /\ Emit(<<"filtersApplied">>)
        /\ last' = Step("applyFilters", "resolved", Null)
        /\ UNCHANGED <<transactions, categories, cacheVars, stats, sessionVars,
                       pending, idb, idbSettings, idbBackup, backups, lsBackup,
                       issued, now, dispatch, added, timerVars, sharedVars, failures>>

-----------------------------------------------------------------------------
(* The backend write of a suspended call settles *)

\* a request that reports success and stores nothing
StoreAsBefore(call) == idb

\* the object store after the request of this call has succeeded
StoreAfter(call) ==
    IF call.kind = "addTransaction" THEN idb \cup {call.payload}
    ELSE IF call.kind = "updateTransaction" THEN StorePut(idb, call.payload)
    ELSE IF call.kind = "deleteTransaction"
         THEN StoreDelete(idb, call.payload.id)
    ELSE IF call.kind = "addTransactionsBatch" THEN idb \cup Range(call.payload)
    ELSE {}

\* store.add fails when the key is in the store
KeyConflict(call) ==
    \/ call.kind = "addTransaction" /\ call.payload.id \in {r.id : r \in idb}
    \/ call.kind = "addTransactionsBatch"
       /\ \E i \in DOMAIN call.payload :
             call.payload[i].id \in {r.id : r \in idb}

\* pending[i] settles; ok is whether the IndexedDB request succeeds.  On
\* failure the catch block runs saveToLocalStorage() (clearAllData only logs).
CompleteWrite(i, ok) ==
    LET call == pending[i]
        stored == ok /\ ~KeyConflict(call)
    IN  /\ initPc = "done"
        /\ stored \/ failures < MaxFailures
        /\ failures' = IF stored THEN failures ELSE failures + 1
        /\ pending' = RemoveAt(pending, i)
        /\ idb' = IF stored THEN StoreAfter(call) ELSE idb
        /\ ls' = IF call.kind = "clearAllData" THEN Null
                 ELSE IF stored THEN ls
                 ELSE saveToLocalStorage(transactions, categories, filters,
                                         stats, now)
        /\ Finish(transactions, call.kind = "addTransaction", EventsOf(call.kind))
        /\ last' = Step(call.kind, "resolved", call.value)
        /\ UNCHANGED <<transactions, categories, filters, idbSettings,
                       sessionVars, settingsWrites, issued, now, otherVars, calls>>

-----------------------------------------------------------------------------
(* init() *)

\* init() is called and suspends at dbManager.init()
InitCall ==
    /\ initPc = "new"
    /\ initPc' = "opening"
    /\ last' = Step("init", "suspended", Null)
    /\ Emit(<<>>)
    /\ UNCHANGED <<ledgerVars, storageVars, isInitialized, db, pending,
                   settingsWrites, issued, now, otherVars, calls, failures, listeners>>

\* indexedDB.open succeeds: onsuccess sets dbManager.db; loadData starts and
\* suspends at getAllTransactions()
InitOpened ==
    /\ initPc = "opening"
    /\ initPc' = "loadingTransactions"
    /\ db' = TRUE
    /\ last' = Step("init", "suspended", Null)
    /\ Emit(<<>>)
    /\ UNCHANGED <<ledgerVars, storageVars, isInitialized, pending,
                   settingsWrites, issued, now, otherVars, calls, failures, listeners>>

\* getAllTransactions() resolves; loadData suspends at getSettings()
InitTransactionsLoaded ==
    /\ initPc = "loadingTransactions"
    /\ initPc' = "loadingSettings"
    /\ transactions' = GetAll(idb)
    /\ last' = Step("init", "suspended", Null)
    /\ Emit(<<>>)
    /\ UNCHANGED <<categories, filters, cacheVars, stats, storageVars,
                   isInitialized, db, pending, settingsWrites, issued, now, otherVars,
                   calls, failures, listeners>>

\* getSettings() resolves; loadData finishes and init() resolves
InitSettingsLoaded ==
    /\ initPc = "loadingSettings"
    /\ initPc' = "done"
    /\ categories' = IF idbSettings # Null THEN idbSettings.categories
                                            ELSE categories
    /\ aliased' = IF idbSettings # Null THEN {} ELSE aliased
    /\ filters' = IF idbSettings # Null THEN idbSettings.filters ELSE filters
    /\ stats' = updateStats(IF idbSettings # Null THEN idbSettings.stats
                                                  ELSE stats,
                            transactions, now)
    /\ isInitialized' = TRUE
    /\ Emit(<<"dataLoaded", "dataChanged">>)
    /\ last' = Step("init", "resolved", Null)
    /\ UNCHANGED <<transactions, cacheVars, storageVars, db, pending,
                   settingsWrites, issued, now, dispatch, added, timerVars,
                   filteredTransactions, defaultCategories, calls, failures,
                   listeners>>

\* { ...this.stats, ...data.stats }: a field that was undefined when the
\* snapshot was serialised is absent from it
MergeStats(st, saved) ==
    [f \in DOMAIN st |-> IF f \in {"oldestTransaction", "newestTransaction"}
                            /\ saved[f] = Null
                         THEN st[f] ELSE saved[f]]

\* fromSaveFormat(data): transactions, categories and stats after the call
fromSaveFormat(data, flt, st, t) ==
    [transactions |-> data.transactions,
     categories |->
        [type \in DOMAIN DEFAULT_CATEGORIES \cup DOMAIN data.categories |->
            IF type \in DOMAIN data.categories
            THEN data.categories[type] ELSE defaultCategories[type]],
     filters |-> [f \in DOMAIN flt \cup DOMAIN data.filters |->
                    IF f \in DOMAIN data.filters THEN data.filters[f]
                                                ELSE flt[f]],
     stats |-> updateStats(MergeStats(st, data.stats), data.transactions, t)]

\* fromSaveFormat as a step of the ledger: restore, invalidateCache,
\* updateStats, emit
\* shared names the types whose array in data.categories is the array of
\* DEFAULT_CATEGORIES (none in a snapshot that was parsed or cloned)
RestoreOf(data, shared) ==
    LET restored == fromSaveFormat(data, filters, stats, now)
        inv == invalidateCache(summaryCache, lastSummaryUpdate, monthlyDataCache)
    IN  /\ transactions' = restored.transactions
        /\ categories' = restored.categories
        /\ filters' = restored.filters
        /\ stats' = restored.stats
        /\ summaryCache' = inv.summaryCache
        /\ lastSummaryUpdate' = inv.lastSummaryUpdate
        /\ monthlyDataCache' = inv.monthlyDataCache
        /\ aliased' = shared \cup (TRANSACTION_TYPES \ DOMAIN data.categories)
        /\ UNCHANGED defaultCategories

\* fromSaveFormat of a snapshot read from storage or from a file
Restore(data) == RestoreOf(data, {})

\* fromSaveFormat(data) called on the ledger: synchronous, writes nothing
FromSaveFormatOf(data, shared) ==
    /\ CallsAccepted
    /\ calls' = calls + 1
    /\ RestoreOf(data, shared)
    /\ Emit(<<"dataLoaded", "dataChanged">>)
    /\ last' = Step("fromSaveFormat", "resolved", Null)
    /\ UNCHANGED <<storageVars, sessionVars, pending, settingsWrites, issued,
                   now, dispatch, added, timerVars, filteredTransactions, failures>>

FromSaveFormat(data) == FromSaveFormatOf(data, {})

\* fromSaveFormat(toSaveFormat()): the snapshot holds this.categories itself
RoundTrip ==
    FromSaveFormatOf(toSaveFormat(transactions, categories, filters, stats, now),
                     aliased)

\* an emission in the other order
LoadEventsChangedFirst(readable, saved) == <<"dataChanged", "dataLoaded">>

\* the events loadFromLocalStorage emits: fromSaveFormat emits its pair when
\* a snapshot was read, then the try block emits the pair; the catch block
\* emits dataLoaded alone
LoadEvents(readable, saved) ==
    IF ~readable THEN <<"dataLoaded">>
    ELSE IF saved THEN <<"dataLoaded", "dataChanged", "dataLoaded", "dataChanged">>
    ELSE <<"dataLoaded", "dataChanged">>

\* loadFromLocalStorage(): no await inside, so one step.  readable is
\* whether getItem and JSON.parse succeed.
LoadFromLocalStorage(readable) ==
    /\ initPc' = "done"
    /\ isInitialized' = TRUE
    /\ Emit(LoadEvents(readable, ls # Null))
    /\ IF readable
       THEN IF ls # Null
            THEN Restore(ls)
            ELSE /\ stats' = updateStats(stats, transactions, now)
                 /\ UNCHANGED <<transactions, categories, filters, cacheVars,
                                sharedVars>>
       ELSE UNCHANGED <<ledgerVars, sharedVars>>

\* dbManager.init() rejects, or a read of loadData rejects: init() catches
\* and falls back to loadFromLocalStorage()
InitFallback(readable) ==
    /\ initPc \in {"opening", "loadingTransactions", "loadingSettings"}
    /\ LoadFromLocalStorage(readable)
    /\ last' = Step("init", "resolved", Null)
    /\ UNCHANGED <<storageVars, db, pending, settingsWrites, issued, now,
                   dispatch, added, timerVars, filteredTransactions, calls, failures,
                   listeners>>

-----------------------------------------------------------------------------
(* calculateSummary, getMonthlyData *)

TypeTotal(txs, type) == SumAmounts(SelectSeq(txs, LAMBDA tx : tx.type = type))

TypeCount(txs, type) == Len(SelectSeq(txs, LAMBDA tx : tx.type = type))

\* total / count, kept exact as the pair; 0 when there is no record of the type
Average(total, count) ==
    IF count > 0 THEN [num |-> total, den |-> count] ELSE [num |-> 0, den |-> 1]

\* the summary object calculateSummary builds on a cache miss
ComputeSummary(txs) ==
    LET income == TypeTotal(txs, INCOME)
        expense == TypeTotal(txs, EXPENSE)
    IN  [income |-> income,
         expense |-> expense,
         balance |-> income - expense,
         transactionCount |-> Len(txs),
         avgIncome |-> Average(income, TypeCount(txs, INCOME)),
         avgExpense |-> Average(expense, TypeCount(txs, EXPENSE))]

\* the cache test of calculateSummary
SummaryCacheHit(sc, lsu, txs) == sc # Null /\ lsu = Num(Len(txs))

\* calculateSummary(): the cache fields after the call; the method returns
\* the summaryCache field
calculateSummary(txs, sc, lsu) ==
    IF SummaryCacheHit(sc, lsu, txs)
    THEN [summaryCache |-> sc, lastSummaryUpdate |-> lsu]
    ELSE [summaryCache |-> ComputeSummary(txs),
          lastSummaryUpdate |-> Num(Len(txs))]

CalculateSummary ==
    LET r == calculateSummary(transactions, summaryCache, lastSummaryUpdate)
    IN  /\ initPc = "done"
        /\ summaryCache' = r.summaryCache
        /\ lastSummaryUpdate' = r.lastSummaryUpdate
        /\ last' = Step("calculateSummary", "resolved", Null)
        /\ Emit(<<>>)
        /\ UNCHANGED <<transactions, categories, filters, monthlyDataCache,
                       stats, storageVars, sessionVars, pending,
                       settingsWrites, issued, now, otherVars, calls, failures>>

\* months are counted from year 0: new Date(y, m - i, 1) carries over years
MonthIndex(ym) == ym[1] * 12 + (ym[2] - 1)

MonthOfIndex(n) == <<n \div 12, (n % 12) + 1>>

\* transaction.date.substring(0, 7)
MonthOf(date) == <<date[1], date[2]>>

\* the months argument: a number of months, or 'all'
Months(n) == [n |-> n]

AllMonths == [all |-> TRUE]

\* the keys getMonthlyData initialises: the months - 1 months before the
\* month of endDate and that month, or for 'all' the months from the first
\* to the last date of the collection
MonthKeys(txs, months, endMonth) ==
    IF months = AllMonths
    THEN IF Len(txs) = 0 THEN {}
         ELSE LET first == MonthIndex(MonthOf(MinDate(txs)))
                  lastMonth == MonthIndex(MonthOf(MaxDate(txs)))
              IN  {MonthOfIndex(n) : n \in first..lastMonth}
    ELSE {MonthOfIndex(MonthIndex(endMonth) - i) : i \in 0..(months.n - 1)}

\* the Map getMonthlyData builds on a cache miss
ComputeMonthlyData(txs, months, endMonth) ==
    [key \in MonthKeys(txs, months, endMonth) |->
        LET inMonth == SelectSeq(txs, LAMBDA tx : MonthOf(tx.date) = key)
        IN  [income |-> TypeTotal(inMonth, INCOME),
             expense |-> SumAmounts(inMonth) - TypeTotal(inMonth, INCOME)]]

\* `${months}-${endDate.toISOString().substring(0, 7)}`
CacheKey(months, endMonth) == <<months, endMonth>>

\* getMonthlyData(months, endDate): the cache after the call; the method
\* returns the entry under the key
getMonthlyData(mdc, txs, months, endMonth) ==
    LET cacheKey == CacheKey(months, endMonth)
    IN  IF cacheKey \in DOMAIN mdc THEN mdc
        ELSE [k \in DOMAIN mdc \cup {cacheKey} |->
                IF k = cacheKey THEN ComputeMonthlyData(txs, months, endMonth)
                ELSE mdc[k]]

GetMonthlyData(months, endMonth) ==
    /\ initPc = "done"
    /\ monthlyDataCache' = getMonthlyData(monthlyDataCache, transactions,
                                          months, endMonth)
    /\ last' = Step("getMonthlyData", "resolved", Null)
    /\ Emit(<<>>)
    /\ UNCHANGED <<transactions, categories, filters, summaryCache,
                   lastSummaryUpdate, stats, storageVars, sessionVars,
                   pending, settingsWrites, issued, now, otherVars, calls, failures>>

\* the queries offered to getMonthlyData
Feb2025 == <<2025, 2>>

MonthlyQueries == {<<Months(2), Feb2025>>}

-----------------------------------------------------------------------------
(* createAutoBackup on page hide, restore from the latest backup, repairData *)

\* the visibilitychange handler calls createAutoBackup()
CreateBackup(stored) ==
    /\ CallsAccepted
    /\ calls' = calls + 1
    /\ CreateAutoBackup(transactions, categories, stats, stored)
    /\ last' = Step("createAutoBackup", "resolved", Null)
    /\ Emit(<<>>)
    /\ UNCHANGED <<ledgerVars, idb, idbSettings, ls, sessionVars, pending,
                   settingsWrites, issued, now, otherVars, failures>>

\* getLatestBackup()
getLatestBackup == IF WritesToIndexedDB THEN idbBackup ELSE lsBackup

\* restoreFromBackup of the UI, from the point where the user has confirmed:
\* fromSaveFormat(backup.data)
RestoreFromBackup ==
    /\ CallsAccepted
    /\ calls' = calls + 1
    /\ getLatestBackup # Null
    /\ Restore(getLatestBackup.data)
    /\ Emit(<<"dataLoaded", "dataChanged">>)
    /\ last' = Step("fromSaveFormat", "resolved", Null)
    /\ UNCHANGED <<storageVars, sessionVars, pending, settingsWrites, issued,
                   now, dispatch, added, timerVars, filteredTransactions, failures>>

\* the first filter of repairData: a record whose id was seen is dropped
Dedupe(txs) ==
    LET keep == {i \in DOMAIN txs : \A j \in 1..(i - 1) : txs[j].id # txs[i].id}
        F[i \in 0..Len(txs)] ==
            IF i = 0 THEN <<>>
            ELSE IF i \in keep THEN Append(F[i - 1], txs[i]) ELSE F[i - 1]
    IN  F[Len(txs)]

\* the second filter evaluates DateParser.validateDate for a record whose
\* date is truthy; dataManager.js does not import DateParser, so this throws
\* a ReferenceError
RepairThrows(txs) == \E i \in DOMAIN txs : txs[i].date # <<>>

\* the rows the callback of the second filter visits: up to the first row
\* with a date when it throws there, every row otherwise
Visited(txs) ==
    IF RepairThrows(txs)
    THEN 1..(CHOOSE i \in DOMAIN txs :
                /\ txs[i].date # <<>>
                /\ \A j \in 1..(i - 1) : txs[j].date = <<>>)
    ELSE DOMAIN txs

\* repairData(): a visited row without an id is given one, in the record
\* itself (after the first filter ids are distinct, so there is at most one
\* such row).  When the callback throws, the assignment of the first
\* filter has been made; otherwise no record has a date, and the second
\* filter drops them all
RepairData ==
    LET deduped == Dedupe(transactions)
        unidentified == {i \in Visited(deduped) : deduped[i].id = 0}
        inv == invalidateCache(summaryCache, lastSummaryUpdate, monthlyDataCache)
    IN  /\ CallsAccepted
        /\ calls' = calls + 1
        /\ \E id \in (IF unidentified = {} THEN {0}
                       ELSE generateUniqueId(issued, IdsOf(deduped))) :
              /\ issued' = IF unidentified = {} THEN issued
                            ELSE issued \cup {id}
              /\ IF RepairThrows(deduped)
                 THEN /\ transactions' =
                            [i \in DOMAIN deduped |->
                                IF i \in unidentified
                                THEN [deduped[i] EXCEPT !.id = id]
                                ELSE deduped[i]]
                      /\ last' = Step("repairData", "throw", Null)
                      /\ Emit(<<>>)
                      /\ UNCHANGED <<cacheVars, stats>>
                 ELSE /\ transactions' = <<>>
                      /\ summaryCache' = inv.summaryCache
                      /\ lastSummaryUpdate' = inv.lastSummaryUpdate
                      /\ monthlyDataCache' = inv.monthlyDataCache
                      /\ stats' = updateStats(stats, <<>>, now)
                      /\ Emit(IF Len(transactions) > 0
                              THEN <<"dataRepaired", "dataChanged">> ELSE <<>>)
                      /\ last' = Step("repairData", "resolved", Null)
        /\ UNCHANGED <<categories, filters, storageVars, sessionVars, pending,
                       settingsWrites, now, otherVars, failures>>

-----------------------------------------------------------------------------
(* destroy(), the calls made after it, and the debounced saveSettings of the
   UI *)

\* UIManager.bindDataEvents, run by the UIManager constructor before
\* dataManager.init() is called
BindDataEvents ==
    /\ initPc = "new"
    /\ Listeners("dataChanged") = <<>>
    /\ listeners' = [event \in {"dataChanged"} |-> <<UiListener>>]
    /\ UNCHANGED <<ledgerVars, storageVars, isInitialized, db, initPc, pending,
                   settingsWrites, issued, now, otherVars, calls, failures, events,
                   settingsTimer, last>>

\* a call of a public method is accepted by the run: init() has resolved,
\* and destroy() may have been called
Callable == initPc \in {"done", "destroyed"} /\ calls < MaxCalls

\* after destroy(): this.transactions, this.categories and this.filters are
\* null, dbManager.db is null, isInitialized is still true
Destroyed == initPc = "destroyed"

\* saveSettings() called from outside the ledger (the beforeunload handler)
SaveSettingsCall ==
    /\ Callable
    /\ calls' = calls + 1
    /\ SaveSettings(transactions, categories, filters, stats)
    /\ last' = Step("saveSettings", IF db THEN "suspended" ELSE "resolved", Null)
    /\ Emit(<<>>)
    /\ UNCHANGED <<ledgerVars, sessionVars, pending, idb, idbSettings,
                   idbBackup, backups, lsBackup, issued, now, otherVars, failures>>

\* the timer of debouncedSaveSettings fires, DEBOUNCE_DELAY after the last
\* dataChanged: dataManager.saveSettings()
TimerFires ==
    /\ settingsTimer
    /\ initPc \in {"done", "destroyed"}
    /\ settingsTimer' = FALSE
    /\ SaveSettings(transactions, categories, filters, stats)
    /\ last' = Step("saveSettings", IF db THEN "suspended" ELSE "resolved", Null)
    /\ events' = <<>>
    /\ UNCHANGED <<ledgerVars, sessionVars, pending, idb, idbSettings,
                   idbBackup, backups, lsBackup, issued, now, otherVars, calls, failures>>

\* destroy(): removeAllListeners(); dbManager.close(); invalidateCache();
\* the references are set to null.  Nothing is written, isInitialized keeps
\* its value, the timer of the UI keeps running, and the requests in flight
\* still settle.
Destroy ==
    LET inv == invalidateCache(summaryCache, lastSummaryUpdate, monthlyDataCache)
    IN  /\ initPc = "done"
        /\ initPc' = "destroyed"
        /\ listeners' = <<>>
        /\ db' = FALSE
        /\ summaryCache' = inv.summaryCache
        /\ lastSummaryUpdate' = inv.lastSummaryUpdate
        /\ monthlyDataCache' = inv.monthlyDataCache
        /\ transactions' = Null
        /\ categories' = Null
        /\ filters' = Null
        /\ filteredTransactions' = Null
        /\ aliased' = {}
        /\ last' = Step("destroy", "resolved", Null)
        /\ Emit(<<>>)
        /\ UNCHANGED <<stats, isInitialized, storageVars, pending,
                       settingsWrites, issued, now, dispatch, added, timerVars,
                       defaultCategories, calls, failures>>

\* the methods whose first use of this.transactions or this.categories
\* comes before any assignment: on the destroyed ledger they throw a
\* TypeError (the async ones reject) and leave everything as it is
ThrowOnNull == {"addTransaction", "updateTransaction", "deleteTransaction",
                "addTransactionsBatch", "calculateSummary", "getMonthlyData",
                "addCategory", "removeCategory"}

CallAfterDestroy(op) ==
    /\ Destroyed
    /\ calls < MaxCalls
    /\ op \in ThrowOnNull
    /\ NoEffect(op, "throw")

\* applyFilters on the destroyed ledger: this.filters = { ...null, ...filters }
\* is assigned, then this.transactions.filter throws
ApplyFiltersAfterDestroy(given) ==
    /\ Destroyed
    /\ calls < MaxCalls
    /\ calls' = calls + 1
    /\ filters' = MergeFilters(filters, given)
    /\ last' = Step("applyFilters", "throw", Null)
    /\ Emit(<<>>)
    /\ UNCHANGED <<transactions, categories, cacheVars, stats, storageVars,
                   sessionVars, pending, settingsWrites, issued, now, otherVars, failures>>

\* createAutoBackup on the destroyed ledger: dbManager.db is null, so the
\* snapshot of the null fields goes to BACKUP_DATA in localStorage
CreateBackupAfterDestroy(stored) ==
    /\ Destroyed
    /\ calls < MaxCalls
    /\ calls' = calls + 1
    /\ CreateAutoBackup(transactions, categories, stats, stored)
    /\ last' = Step("createAutoBackup", "resolved", Null)
    /\ Emit(<<>>)
    /\ UNCHANGED <<ledgerVars, idb, idbSettings, ls, sessionVars, pending,
                   settingsWrites, issued, now, otherVars, failures>>

\* fromSaveFormat(data) on the destroyed ledger, with a snapshot that holds
\* every field: the fields that destroy() set to null hold values again, and
\* from here every method runs as on a ledger without IndexedDB
FromSaveFormatAfterDestroy(data) ==
    /\ Destroyed
    /\ calls < MaxCalls
    /\ calls' = calls + 1
    /\ Restore(data)
    /\ initPc' = "done"
    /\ Emit(<<"dataLoaded", "dataChanged">>)
    /\ last' = Step("fromSaveFormat", "resolved", Null)
    /\ UNCHANGED <<storageVars, isInitialized, db, listeners, pending,
                   settingsWrites, issued, now, dispatch, added, timerVars,
                   filteredTransactions, failures>>

\* pending[i] settles on the destroyed ledger: the request was made before
\* close(), so it still completes; on failure the catch block runs
\* saveToLocalStorage() on the null fields; then updateStats() throws at
\* this.transactions.length and the call rejects
CompleteWriteAfterDestroy(i, ok) ==
    LET call == pending[i]
        stored == ok /\ ~KeyConflict(call)
    IN  /\ Destroyed
        /\ call.kind \in ThrowOnNull
        /\ stored \/ failures < MaxFailures
        /\ failures' = IF stored THEN failures ELSE failures + 1
        /\ pending' = RemoveAt(pending, i)
        /\ idb' = IF stored THEN StoreAfter(call) ELSE idb
        /\ ls' = IF stored THEN ls
                 ELSE saveToLocalStorage(transactions, categories, filters,
                                         stats, now)
        /\ last' = Step(call.kind, "throw", Null)
        /\ Emit(<<>>)
        /\ UNCHANGED <<ledgerVars, sessionVars, settingsWrites, idbSettings,
                       idbBackup, backups, lsBackup, issued, now, otherVars, calls>>

-----------------------------------------------------------------------------
(* EventEmitter: on, off, emit *)

\* the two functions that are subscribed: one returns, one throws
Returns == "returns"
Throws == "throws"
ListenerFunctions == {Returns, Throws}

EmitterEvents == {"dataChanged", "error"}

\* on(event, listener): listeners.push(listener)
On(event, listener) ==
    /\ Len(Listeners(event)) < MaxSubscribed
    /\ listeners' = [e \in DOMAIN listeners \cup {event} |->
                        IF e = event THEN Append(Listeners(event), listener)
                        ELSE listeners[e]]
    /\ last' = Step("on", "resolved", Null)
    /\ UNCHANGED <<ledgerVars, storageVars, isInitialized, db, initPc, pending,
                   settingsWrites, issued, now, otherVars, calls, failures, events,
                   settingsTimer>>

\* indexOf: the first index of the listener, 0 for -1
IndexOf(s, x) ==
    IF Includes(s, x)
    THEN CHOOSE i \in DOMAIN s : s[i] = x /\ \A j \in 1..(i - 1) : s[j] # x
    ELSE 0

\* off(event, listenerToRemove): the first occurrence is spliced out, and the
\* event is deleted when no listener is left
Off(event, listenerToRemove) ==
    LET index == IndexOf(Listeners(event), listenerToRemove)
        left == IF index = 0 THEN Listeners(event)
                ELSE RemoveAt(Listeners(event), index)
    IN  /\ event \in DOMAIN listeners
        /\ listeners' =
              [e \in (IF left = <<>> THEN DOMAIN listeners \ {event}
                                     ELSE DOMAIN listeners) |->
                  IF e = event THEN left ELSE listeners[e]]
        /\ last' = Step("off", "resolved", Null)
        /\ UNCHANGED <<ledgerVars, storageVars, isInitialized, db, initPc,
                       pending, settingsWrites, issued, now, otherVars, calls, failures,
                       events, settingsTimer>>

\* emit(event, ...args) at call depth `depth`; origin is the event name
\* passed along when emit republishes on 'error'.  The result is what emit
\* returns ("true", "false") or "throw", and the log of the listener
\* invocations in order.  A listener that throws is caught, and the catch
\* block calls this.emit('error', error, event): when a listener of 'error'
\* throws, that call nests without end, the call stack (MaxDepth) runs out,
\* and the RangeError leaves every catch block it passes through.
RECURSIVE emit(_, _, _, _)
RECURSIVE Dispatch(_, _, _, _, _)
Dispatch(reg, event, origin, i, depth) ==
    IF i > Len(reg[event]) THEN [thrown |-> FALSE, log |-> <<>>]
    ELSE LET invocation == <<[event |-> event, index |-> i, origin |-> origin,
                              depth |-> depth]>>
             rest == Dispatch(reg, event, origin, i + 1, depth)
         IN  IF reg[event][i] = Throws
             THEN LET republished == emit(reg, "error", event, depth + 1)
                  IN  IF republished.returned = "throw"
                      THEN [thrown |-> TRUE,
                            log |-> invocation \o republished.log]
                      ELSE [thrown |-> rest.thrown,
                            log |-> invocation \o republished.log \o rest.log]
             ELSE [thrown |-> rest.thrown, log |-> invocation \o rest.log]

emit(reg, event, origin, depth) ==
    IF depth > MaxDepth THEN [returned |-> "throw", log |-> <<>>]
    ELSE IF event \notin DOMAIN reg THEN [returned |-> "false", log |-> <<>>]
    ELSE LET pass == Dispatch(reg, event, origin, 1, depth)
         IN  [returned |-> IF pass.thrown THEN "throw" ELSE "true",
              log |-> pass.log]

\* a caller emits an event of its own
EmitEvent(event) ==
    LET outcome == emit(listeners, event, "", 1)
    IN  /\ last' = Step("emit",
                        IF outcome.returned = "throw" THEN "throw" ELSE "resolved",
                        outcome)
        /\ UNCHANGED <<ledgerVars, storageVars, sessionVars, pending,
                       settingsWrites, issued, now, otherVars, calls, failures, events,
                       settingsTimer>>

-----------------------------------------------------------------------------
(* EventEmitter: listeners that change the registry while they are
   dispatched, emit and emitAsync *)

\* three listeners that call back into the emitter for the event they are
\* invoked for; none of them throws
Unsubscribes == "unsubscribes"   \* () => this.off(event, the Returns listener)
Subscribes == "subscribes"       \* () => this.on(event, the Returns listener)
Clears == "clears"               \* () => this.removeAllListeners(event)
RegistryListeners == {Returns, Unsubscribes, Subscribes, Clears}

\* this.events.get(event), the empty list when the event has no entry
ListOf(reg, event) == IF event \in DOMAIN reg THEN reg[event] ELSE <<>>

\* on, off and removeAllListeners(event) as functions of the registry
on(reg, event, listener) ==
    [e \in DOMAIN reg \cup {event} |->
        IF e = event THEN Append(ListOf(reg, event), listener) ELSE reg[e]]

off(reg, event, listenerToRemove) ==
    LET index == IndexOf(ListOf(reg, event), listenerToRemove)
        left == IF index = 0 THEN ListOf(reg, event)
                ELSE RemoveAt(ListOf(reg, event), index)
    IN  [e \in (IF left = <<>> THEN DOMAIN reg \ {event} ELSE DOMAIN reg) |->
            IF e = event THEN left ELSE reg[e]]

removeAllListeners(reg, event) == [e \in DOMAIN reg \ {event} |-> reg[e]]

\* listener.apply(this, args): the registry after the listener has run
Invoke(listener, reg, event) ==
    IF listener = Unsubscribes THEN off(reg, event, Returns)
    ELSE IF listener = Subscribes THEN on(reg, event, Returns)
    ELSE IF listener = Clears THEN removeAllListeners(reg, event)
    ELSE reg

\* a pass that reads the registered array itself
IteratedLive(copy, registered) == registered

\* const listeners = this.events.get(event).slice(): the pass iterates the
\* copy made when it started, whatever the registered array has become
Iterated(copy, registered) == copy

\* listeners.forEach(...) from position i: the registry after the pass and
\* the listeners invoked, in order
RECURSIVE Pass(_, _, _, _)
Pass(copy, reg, event, i) ==
    LET list == Iterated(copy, ListOf(reg, event))
    IN  IF i > Len(list) THEN [reg |-> reg, log |-> <<>>]
        ELSE LET rest == Pass(copy, Invoke(list[i], reg, event), event, i + 1)
             IN  [reg |-> rest.reg, log |-> <<list[i]>> \o rest.log]

\* emit(event) over listeners that do not throw
EmitPass(event) ==
    LET pass == Pass(ListOf(listeners, event), listeners, event, 1)
    IN  /\ Len(ListOf(pass.reg, event)) <= MaxSubscribed
        /\ listeners' = pass.reg
        /\ last' = Step("emit", "resolved",
                        [returned |-> IF event \in DOMAIN listeners
                                      THEN "true" ELSE "false",
                         log |-> pass.log])
        /\ UNCHANGED <<ledgerVars, storageVars, isInitialized, db, initPc,
                       pending, settingsWrites, issued, now, calls, failures,
                       events, settingsTimer, dispatch, added, timerVars,
                       filteredTransactions, sharedVars>>

\* the body of the for loop of emitAsync at position i: the listener is
\* invoked, and the function suspends at the await of its result
AwaitListener(event, copy, i, log) ==
    LET list == Iterated(copy, ListOf(listeners, event))
        after == Invoke(list[i], listeners, event)
    IN  /\ Len(ListOf(after, event)) <= MaxSubscribed
        /\ listeners' = after
        /\ dispatch' = [event |-> event, copy |-> copy, index |-> i,
                        log |-> Append(log, list[i])]
        /\ last' = Step("emitAsync", "suspended", Null)

\* emitAsync(event): false when the event has no entry; otherwise the copy
\* is made and the first listener is invoked before the call suspends
EmitAsync(event) ==
    /\ dispatch = Null
    /\ IF event \notin DOMAIN listeners
       THEN /\ last' = Step("emitAsync", "resolved",
                            [returned |-> "false", log |-> <<>>])
            /\ UNCHANGED <<listeners, dispatch>>
       ELSE AwaitListener(event, listeners[event], 1, <<>>)
    /\ UNCHANGED <<ledgerVars, storageVars, isInitialized, db, initPc,
                   pending, settingsWrites, issued, now, calls, failures,
                   events, settingsTimer, added, timerVars, filteredTransactions,
                   sharedVars>>

\* the awaited listener has settled: the loop goes on to the next position,
\* or emitAsync returns true
EmitAsyncResumes ==
    /\ dispatch # Null
    /\ LET list == Iterated(dispatch.copy, ListOf(listeners, dispatch.event))
       IN  IF dispatch.index + 1 > Len(list)
           THEN /\ last' = Step("emitAsync", "resolved",
                                [returned |-> "true", log |-> dispatch.log])
                /\ dispatch' = Null
                /\ UNCHANGED listeners
           ELSE AwaitListener(dispatch.event, dispatch.copy,
                              dispatch.index + 1, dispatch.log)
    /\ UNCHANGED <<ledgerVars, storageVars, isInitialized, db, initPc,
                   pending, settingsWrites, issued, now, calls, failures,
                   events, settingsTimer, added, timerVars, filteredTransactions,
                   sharedVars>>

-----------------------------------------------------------------------------
(* IndexedDBManager.cleanupOldBackups *)

\* cleanupOldBackups(keepCount = 10)
KEEP_COUNT == 10

\* the cursor over the index 'timestamp' in direction 'prev' reads a before
\* b: the later timestamp first, and of two equal timestamps the larger key
ReadBefore(a, b) ==
    \/ a.timestamp > b.timestamp
    \/ a.timestamp = b.timestamp /\ a.id > b.id

\* the array the cursor fills
BackupsRead(store) ==
    [i \in 1..Cardinality(store) |->
        CHOOSE b \in store : Cardinality({c \in store : ReadBefore(c, b)}) = i - 1]

\* a cleanup that deletes from the front of the array
ToDeleteFromFront(read, keepCount) == SubSeq(read, 1, Len(read) - keepCount)

\* backups.slice(keepCount)
ToDelete(read, keepCount) == SubSeq(read, keepCount + 1, Len(read))

\* the store after the transaction of cleanupOldBackups
cleanupOldBackups(store, keepCount) ==
    LET read == BackupsRead(store)
    IN  IF Len(read) > keepCount
        THEN store \ {ToDelete(read, keepCount)[i] :
                         i \in DOMAIN ToDelete(read, keepCount)}
        ELSE store

\* the readwrite transaction of a cleanupOldBackups() call runs: the cursor
\* and the deletes are requests of one transaction, and transactions on the
\* store run one after the other
CleanupOldBackups ==
    /\ backups.cleanups > 0
    /\ backups' = [backups EXCEPT !.store = cleanupOldBackups(@, KEEP_COUNT),
                                  !.cleanups = @ - 1]
    /\ last' = Step("cleanupOldBackups", "resolved", Null)
    /\ UNCHANGED <<ledgerVars, idb, idbSettings, idbBackup, ls, lsBackup,
                   sessionVars, pending, settingsWrites, issued, now,
                   otherVars, calls, failures, events, settingsTimer>>

\* the backups earlier sessions have left: n entries, one per clock value
\* up to the present
StoredBackups(n) == {[id |-> i, timestamp |-> i - n] : i \in 1..n}

\* a new ledger over a store 'backups' that holds KEEP_COUNT - 1 or
\* KEEP_COUNT entries
InitBackups ==
    /\ transactions = <<>>
    /\ categories = DEFAULT_CATEGORIES
    /\ filters = NoFilters
    /\ summaryCache = Null
    /\ lastSummaryUpdate = Null
    /\ monthlyDataCache = <<>>
    /\ stats = [totalTransactions |-> 0, lastModified |-> Null, createdAt |-> 0,
                oldestTransaction |-> Null, newestTransaction |-> Null]
    /\ isInitialized = FALSE
    /\ db = FALSE
    /\ initPc = "new"
    /\ pending = <<>>
    /\ settingsWrites = <<>>
    /\ listeners = <<>>
    /\ settingsTimer = FALSE
    /\ idb = {}
    /\ idbSettings = Null
    /\ idbBackup = [timestamp |-> 0, data |-> StoredSnapshot]
    /\ \E n \in {KEEP_COUNT - 1, KEEP_COUNT} :
          backups = [store |-> StoredBackups(n), key |-> n, cleanups |-> 0,
                     requests |-> 0]
    /\ ls = Null
    /\ lsBackup = Null
    /\ issued = {StoredTransaction.id}
    /\ now = 0
    /\ dispatch = Null
    /\ added = 1
    /\ debounced = Null
    /\ timeoutId = Null
    /\ filteredTransactions = <<>>
    /\ defaultCategories = DEFAULT_CATEGORIES
    /\ aliased = TRANSACTION_TYPES
    /\ calls = 0
    /\ failures = 0
    /\ events = <<>>
    /\ last = Step("constructor", "resolved", Null)

-----------------------------------------------------------------------------
(* A ledger one record short of its first automatic backup *)

\* the records of AUTO_BACKUP_INTERVAL - 1 additions of earlier sessions,
\* under ids that this session's generator does not return
BacklogIds == {AUTO_BACKUP_INTERVAL + i : i \in 1..(AUTO_BACKUP_INTERVAL - 1)}

Backlog ==
    {NewTransaction(id, validateAndSanitizeTransaction(DraftSalary).sanitizedData, 0) :
        id \in BacklogIds}

\* a new ledger over an IndexedDB that holds these records and no backup
InitBacklog ==
    /\ transactions = <<>>
    /\ categories = DEFAULT_CATEGORIES
    /\ filters = NoFilters
    /\ summaryCache = Null
    /\ lastSummaryUpdate = Null
    /\ monthlyDataCache = <<>>
    /\ stats = [totalTransactions |-> 0, lastModified |-> Null, createdAt |-> 0,
                oldestTransaction |-> Null, newestTransaction |-> Null]
    /\ isInitialized = FALSE
    /\ db = FALSE
    /\ initPc = "new"
    /\ pending = <<>>
    /\ settingsWrites = <<>>
    /\ listeners = <<>>
    /\ settingsTimer = FALSE
    /\ idb = Backlog
    /\ idbSettings = Null
    /\ idbBackup = Null
    /\ backups = NoBackups
    /\ ls = Null
    /\ lsBackup = Null
    /\ issued = BacklogIds
    /\ now = 0
    /\ dispatch = Null
    /\ added = Cardinality(BacklogIds)
    /\ debounced = Null
    /\ timeoutId = Null
    /\ filteredTransactions = <<>>
    /\ defaultCategories = DEFAULT_CATEGORIES
    /\ aliased = TRANSACTION_TYPES
    /\ calls = 0
    /\ failures = 0
    /\ events = <<>>
    /\ last = Step("constructor", "resolved", Null)

\* the filters offered to applyFilters where the view is examined: the two
\* above, one that selects the other type, one that names a month only, and
\* one that resets every field
ViewFilters ==
    FilterInputs \cup {[type |-> INCOME], [month |-> <<2025, 1>>], NoFilters}

\* the categories of another instance, constructed at any moment and not
\* operated on: the copy made by its constructor holds the arrays of
\* DEFAULT_CATEGORIES
ConstructedCategories == defaultCategories

-----------------------------------------------------------------------------
(* validateDataIntegrity *)

\* validateDataIntegrity(): the issues in the order they are pushed, each as
\* the check that raised it and the row (for a duplicate, the id), and the
\* ids seen more than once
validateDataIntegrity(txs, cats) ==
    LET Duplicate(i) == \E j \in 1..(i - 1) : txs[j].id = txs[i].id
        allCategories == cats[INCOME] \o cats[EXPENSE]
        Issue(check, row) == <<[check |-> check, row |-> row]>>
        Required(i) ==
            (IF txs[i].id = 0 THEN Issue("id", i) ELSE <<>>)
            \o (IF txs[i].date = <<>> THEN Issue("date", i) ELSE <<>>)
            \o (IF txs[i].type = "" \/ txs[i].type \notin TRANSACTION_TYPES
                THEN Issue("type", i) ELSE <<>>)
            \o (IF txs[i].category = <<>> THEN Issue("category", i) ELSE <<>>)
            \o (IF txs[i].amount <= 0 THEN Issue("amount", i) ELSE <<>>)
        Duplicates[i \in 0..Len(txs)] ==
            IF i = 0 THEN <<>>
            ELSE Duplicates[i - 1]
                    \o (IF Duplicate(i) THEN Issue("duplicate", txs[i].id)
                        ELSE <<>>)
        Fields[i \in 0..Len(txs)] ==
            IF i = 0 THEN <<>> ELSE Fields[i - 1] \o Required(i)
        Unknown[i \in 0..Len(txs)] ==
            IF i = 0 THEN <<>>
            ELSE Unknown[i - 1]
                    \o (IF ~Includes(allCategories, txs[i].category)
                        THEN Issue("unknown category", i) ELSE <<>>)
        issues == Duplicates[Len(txs)] \o Fields[Len(txs)] \o Unknown[Len(txs)]
    IN  [isValid |-> Len(issues) = 0,
         issues |-> issues,
         duplicateIds |-> {txs[i].id : i \in {k \in DOMAIN txs : Duplicate(k)}}]

ValidateDataIntegrity ==
    /\ initPc = "done"
    /\ last' = Step("validateDataIntegrity", "resolved",
                    validateDataIntegrity(transactions, categories))
    /\ Emit(<<>>)
    /\ UNCHANGED <<ledgerVars, storageVars, sessionVars, pending,
                   settingsWrites, issued, now, otherVars, calls, failures>>

\* a draft of one type under a category registered for the other type
DraftCrossed ==
    [date |-> Jan10, type |-> INCOME, category |-> Shokuhi,
     amount |-> RawNum(30), description |-> <<>>]

\* snapshots handed to fromSaveFormat whose records are damaged: one id
\* twice, an amount of 0, a type that is neither income nor expense, no id,
\* no category
DamagedSnapshots ==
    {toSaveFormat(txs, DEFAULT_CATEGORIES, NoFilters, StoredStats, 0) :
        txs \in {<<StoredTransaction, StoredTransaction>>,
                 <<[StoredTransaction EXCEPT !.amount = 0]>>,
                 <<[StoredTransaction EXCEPT !.type = "transfer"]>>,
                 <<[StoredTransaction EXCEPT !.id = 0]>>,
                 <<[StoredTransaction EXCEPT !.category = <<>>]>>}}

-----------------------------------------------------------------------------
(* FileHandler: the exports read the ledger through this.dataManager *)

\* what an export leaves alone in every case
ExportFrame ==
    UNCHANGED <<categories, filters, stats, storageVars, sessionVars, pending,
                settingsWrites, issued, now, otherVars, calls, failures>>

\* exportToCSV(): this.dataManager.transactions.sort(...).map(...); sort
\* orders the array it is called on, the array of the ledger, and map copies
\* afterwards
ExportToCSV ==
    /\ initPc = "done"
    /\ transactions' = SortByDateDescending(transactions)
    /\ last' = Step("exportToCSV", "resolved", Null)
    /\ Emit(<<>>)
    /\ UNCHANGED cacheVars
    /\ ExportFrame

\* exportToExcel(): { success: false } without window.XLSX or without a
\* record; otherwise createExcelWorkbook(): createMainDataSheet() sorts
\* this.dataManager.transactions as exportToCSV does, createSummarySheet()
\* calls calculateSummary() and createMonthlySheet() getMonthlyData(24)
ExportToExcel(xlsx, endMonth) ==
    /\ initPc = "done"
    /\ IF ~xlsx \/ Len(transactions) = 0
       THEN /\ last' = Step("exportToExcel", "refused", Null)
            /\ UNCHANGED <<transactions, cacheVars>>
       ELSE LET sorted == SortByDateDescending(transactions)
                r == calculateSummary(sorted, summaryCache, lastSummaryUpdate)
            IN  /\ transactions' = sorted
                /\ summaryCache' = r.summaryCache
                /\ lastSummaryUpdate' = r.lastSummaryUpdate
                /\ monthlyDataCache' = getMonthlyData(monthlyDataCache, sorted,
                                                      Months(24), endMonth)
                /\ last' = Step("exportToExcel", "resolved", Null)
    /\ Emit(<<>>)
    /\ ExportFrame

\* exportToJSON(): JSON.stringify(this.dataManager.toSaveFormat()); the
\* snapshot refers to the arrays of the ledger and stringify only reads them
ExportToJSON ==
    /\ initPc = "done"
    /\ last' = Step("exportToJSON", "resolved", Null)
    /\ Emit(<<>>)
    /\ UNCHANGED <<transactions, cacheVars>>
    /\ ExportFrame

\* one of the three exports
Export ==
    \/ ExportToCSV
    \/ \E xlsx \in BOOLEAN : ExportToExcel(xlsx, Feb2025)
    \/ ExportToJSON

-----------------------------------------------------------------------------
(* debounce.js: debounce(func, wait, immediate) *)

DebounceWait == 2   \* wait, in ticks of the timer clock
MaxTime == 5        \* the timer clock runs from 0 to MaxTime
MaxBurst == 3       \* calls of one debounced function in one run

\* the arguments a caller passes
DebounceArgs == {"a", "b"}

\* what debounce and its closure leave alone
DebounceFrame ==
    UNCHANGED <<ledgerVars, storageVars, sessionVars, pending, settingsWrites,
                issued, now, dispatch, added, timeoutId, filteredTransactions,
                sharedVars, calls, failures, events, settingsTimer>>

\* debounce(func, wait, immediate): let timeout; the closure is returned.
\* calls and runs record the calls of the closure and of func, with the time
\* on the timer clock
Debounce(immediate) ==
    /\ debounced = Null
    /\ debounced' = [immediate |-> immediate, timeout |-> Null, clock |-> 0,
                     calls |-> <<>>, runs |-> <<>>]
    /\ last' = Step("debounce", "resolved", Null)
    /\ DebounceFrame

\* the timer set by the last call has run its wait
TimerDue(closure) ==
    IF closure.timeout = Null THEN FALSE
    ELSE closure.clock >= closure.timeout.due

\* a closure that calls func on every call when immediate is set
CallNowOnEveryCall(immediate, timeout) == immediate

\* const callNow = immediate && !timeout
CallNow(immediate, timeout) == immediate /\ timeout = Null

\* executedFunction(...args): clearTimeout(timeout); timeout =
\* setTimeout(later, wait); if (callNow) func.apply(this, args).  A timer
\* that is due runs before any other task of that time.
ExecutedFunction(args) ==
    /\ debounced # Null
    /\ Len(debounced.calls) < MaxBurst
    /\ ~TimerDue(debounced)
    /\ LET at == debounced.clock
           callNow == CallNow(debounced.immediate, debounced.timeout)
       IN  debounced' =
              [debounced EXCEPT
                  !.timeout = [due |-> at + DebounceWait, args |-> args],
                  !.calls = Append(@, [at |-> at, args |-> args]),
                  !.runs = IF callNow THEN Append(@, [at |-> at, args |-> args])
                                      ELSE @]
    /\ last' = Step("executedFunction", "resolved", Null)
    /\ DebounceFrame

\* later(), wait after the call that set the timer: timeout = null;
\* if (!immediate) func.apply(this, args), with the args of that call
Later ==
    /\ debounced # Null
    /\ debounced.timeout # Null
    /\ debounced.clock = debounced.timeout.due
    /\ debounced' =
          [debounced EXCEPT
              !.timeout = Null,
              !.runs = IF ~debounced.immediate
                       THEN Append(@, [at |-> debounced.clock,
                                       args |-> debounced.timeout.args])
                       ELSE @]
    /\ last' = Step("later", "resolved", Null)
    /\ DebounceFrame

\* the timer clock advances by one tick, unless a timer is due
TimePasses ==
    /\ debounced # Null
    /\ debounced.clock < MaxTime
    /\ ~TimerDue(debounced)
    /\ debounced' = [debounced EXCEPT !.clock = @ + 1]
    /\ last' = Step("tick", "resolved", Null)
    /\ DebounceFrame

-----------------------------------------------------------------------------
(* EventEmitter: once, waitFor, and a listener that emits *)

\* the onceWrapper that once(event, listener) registers for a listener that
\* returns: (...args) => { this.off(event, onceWrapper); listener(...) }
OnceWrapper == "onceWrapper"

\* a listener that emits the event it is invoked for, unless an emit of its
\* own is running: () => { if (!busy) { busy = true; this.emit(event);
\* busy = false } }
Reemits == "reemits"

\* waitFor: the onceWrapper that its once(event, listener) registers, and
\* the listener itself, which is never in the registry
WaitWrapper == "waitForWrapper"
WaitListener == "waitForListener"

OnceListeners == {Returns, Reemits}

\* what once, waitFor and emit leave alone
EmitterFrame ==
    UNCHANGED <<ledgerVars, storageVars, isInitialized, db, initPc, pending,
                settingsWrites, issued, now, dispatch, added, debounced,
                filteredTransactions, sharedVars, calls, failures, events,
                settingsTimer>>

\* once(event, listener): this.on(event, onceWrapper)
Once(event) ==
    /\ Len(ListOf(listeners, event)) < MaxSubscribed
    /\ ~Includes(ListOf(listeners, event), OnceWrapper)
    /\ listeners' = on(listeners, event, OnceWrapper)
    /\ last' = Step("once", "resolved", Null)
    /\ UNCHANGED timeoutId
    /\ EmitterFrame

\* emit(event) at call depth `depth` over listeners that emit: the registry
\* after the call and the listeners invoked, in order.  A wrapper of once
\* removes itself and calls its listener; the listener of waitFor calls
\* this.off(event, listener) on itself, which finds nothing
RECURSIVE emitNested(_, _, _)
RECURSIVE PassNested(_, _, _, _, _)
PassNested(copy, reg, event, i, depth) ==
    IF i > Len(copy) THEN [reg |-> reg, log |-> <<>>]
    ELSE LET listener == copy[i]
             invoked ==
                IF listener = OnceWrapper
                THEN [reg |-> off(reg, event, OnceWrapper), log |-> <<>>]
                ELSE IF listener = WaitWrapper
                THEN [reg |-> off(off(reg, event, WaitWrapper), event,
                                  WaitListener),
                      log |-> <<>>]
                ELSE IF listener = Reemits /\ depth = 1
                THEN emitNested(reg, event, depth + 1)
                ELSE [reg |-> reg, log |-> <<>>]
             rest == PassNested(copy, invoked.reg, event, i + 1, depth)
         IN  [reg |-> rest.reg,
              log |-> <<listener>> \o invoked.log \o rest.log]

emitNested(reg, event, depth) ==
    IF event \notin DOMAIN reg THEN [reg |-> reg, log |-> <<>>]
    ELSE PassNested(reg[event], reg, event, 1, depth)

\* a caller emits the event; the listener of waitFor clears the timer
EmitNested(event) ==
    LET outcome == emitNested(listeners, event, 1)
    IN  /\ listeners' = outcome.reg
        /\ timeoutId' = IF Includes(outcome.log, WaitWrapper) THEN Null
                        ELSE timeoutId
        /\ last' = Step("emit", "resolved",
                        [returned |-> IF event \in DOMAIN listeners
                                      THEN "true" ELSE "false",
                         log |-> outcome.log])
        /\ EmitterFrame

\* waitFor(event, timeout) with timeout > 0: this.once(event, listener);
\* timeoutId = setTimeout(..., timeout); the promise is pending
WaitFor(event) ==
    /\ timeoutId = Null
    /\ Len(ListOf(listeners, event)) < MaxSubscribed
    /\ ~Includes(ListOf(listeners, event), WaitWrapper)
    /\ listeners' = on(listeners, event, WaitWrapper)
    /\ timeoutId' = [event |-> event]
    /\ last' = Step("waitFor", "suspended", Null)
    /\ EmitterFrame

\* the timer of waitFor fires: this.off(event, listener); reject(...)
OffTheListener(reg, event) == off(reg, event, WaitListener)

WaitForTimesOut ==
    /\ timeoutId # Null
    /\ listeners' = OffTheListener(listeners, timeoutId.event)
    /\ timeoutId' = Null
    /\ last' = Step("waitFor", "throw", Null)
    /\ EmitterFrame

-----------------------------------------------------------------------------
(* A new ledger over the storage an earlier one has written *)

\* the page is loaded again: new HouseholdBudgetData() over the same
\* IndexedDB database and localStorage, after every call of the earlier
\* ledger has resolved.  The module of the constants is evaluated again, and
\* the id generator goes on from where it was.
NewLedger ==
    /\ initPc = "done"
    /\ pending = <<>>
    /\ settingsWrites = <<>>
    /\ transactions' = <<>>
    /\ filteredTransactions' = <<>>
    /\ categories' = DEFAULT_CATEGORIES
    /\ defaultCategories' = DEFAULT_CATEGORIES
    /\ aliased' = TRANSACTION_TYPES
    /\ filters' = NoFilters
    /\ isInitialized' = FALSE
    /\ db' = FALSE
    /\ initPc' = "new"
    /\ summaryCache' = Null
    /\ lastSummaryUpdate' = Null
    /\ monthlyDataCache' = <<>>
    /\ stats' = [totalTransactions |-> 0, lastModified |-> Null,
                 createdAt |-> now, oldestTransaction |-> Null,
                 newestTransaction |-> Null]
    /\ listeners' = <<>>
    /\ settingsTimer' = FALSE
    /\ events' = <<>>
    /\ last' = Step("constructor", "resolved", Null)
    /\ UNCHANGED <<storageVars, pending, settingsWrites, issued, now, dispatch,
                   added, timerVars, calls, failures>>

-----------------------------------------------------------------------------
(* Specifications.  Each offers the methods a group of properties is about,
   with the inputs that exercise them. *)

\* addTransaction with every draft, and the two cached readers
Next ==
    \/ InitCall
    \/ InitOpened
    \/ InitTransactionsLoaded
    \/ InitSettingsLoaded
    \/ \E readable \in BOOLEAN : InitFallback(readable)
    \/ \E d \in Drafts : AddTransaction(d)
    \/ CalculateSummary
    \/ \E q \in MonthlyQueries : GetMonthlyData(q[1], q[2])
    \/ \E i \in DOMAIN pending, ok \in BOOLEAN : CompleteWrite(i, ok)

Spec == Init /\ [][Next]_vars

\* the methods that assign ids and the one that removes records
NextDelete ==
    \/ InitCall
    \/ InitOpened
    \/ InitTransactionsLoaded
    \/ InitSettingsLoaded
    \/ \E readable \in BOOLEAN : InitFallback(readable)
    \/ AddTransaction(DraftSalary)
    \/ \E id \in Ids : DeleteTransaction(id)
    \/ AddTransactionsBatch(<<DraftSalary, DraftNaN, DraftSalary>>)
    \/ CalculateSummary
    \/ \E i \in DOMAIN pending, ok \in BOOLEAN : CompleteWrite(i, ok)

SpecDelete == Init /\ [][NextDelete]_vars

\* addTransactionsBatch with every batch
NextBatch ==
    \/ InitCall
    \/ InitOpened
    \/ InitTransactionsLoaded
    \/ InitSettingsLoaded
    \/ \E readable \in BOOLEAN : InitFallback(readable)
    \/ \E drafts \in BatchInputs : AddTransactionsBatch(drafts)
    \/ \E i \in DOMAIN pending, ok \in BOOLEAN : CompleteWrite(i, ok)

SpecBatch == Init /\ [][NextBatch]_vars

\* updateTransaction with every patch, while the clock advances
NextUpdate ==
    \/ InitCall
    \/ InitOpened
    \/ InitTransactionsLoaded
    \/ InitSettingsLoaded
    \/ \E readable \in BOOLEAN : InitFallback(readable)
    \/ Tick
    \/ AddTransaction(DraftFood)
    \/ \E id \in Ids, updates \in Patches : UpdateTransaction(id, updates)
    \/ \E i \in DOMAIN pending, ok \in BOOLEAN : CompleteWrite(i, ok)

SpecUpdate == Init /\ [][NextUpdate]_vars

\* every method that changes the collection, and the two cached readers
NextCache ==
    \/ InitCall
    \/ InitOpened
    \/ InitTransactionsLoaded
    \/ InitSettingsLoaded
    \/ \E readable \in BOOLEAN : InitFallback(readable)
    \/ AddTransaction(DraftFood)
    \/ \E id \in Ids : UpdateTransaction(id, PatchAmount)
    \/ \E id \in Ids : DeleteTransaction(id)
    \/ AddTransactionsBatch(<<DraftSalary>>)
    \/ ClearAllData
    \/ CalculateSummary
    \/ \E q \in MonthlyQueries : GetMonthlyData(q[1], q[2])
    \/ \E stored \in BOOLEAN : CreateBackup(stored)
    \/ RestoreFromBackup
    \/ RepairData
    \/ \E i \in DOMAIN pending, ok \in BOOLEAN : CompleteWrite(i, ok)

SpecCache == Init /\ [][NextCache]_vars

\* the category registry: addCategory and removeCategory over records of
\* two categories
NextCategory ==
    \/ InitCall
    \/ InitOpened
    \/ InitTransactionsLoaded
    \/ InitSettingsLoaded
    \/ \E readable \in BOOLEAN : InitFallback(readable)
    \/ \E d \in {DraftFood, DraftSalary} : AddTransaction(d)
    \/ \E categoryName \in NewCategoryNames : AddCategory(EXPENSE, categoryName)
    \/ \E categoryName \in RemovedCategoryNames,
          replacementCategory \in Replacements :
          RemoveCategory(EXPENSE, categoryName, replacementCategory)
    \/ \E i \in DOMAIN pending, ok \in BOOLEAN : CompleteWrite(i, ok)
    \/ \E i \in DOMAIN settingsWrites, ok \in BOOLEAN :
          CompleteSettingsWrite(i, ok)

SpecCategory == Init /\ [][NextCategory]_vars

\* snapshots: the ledger is changed, the clock advances, and the snapshot of
\* the moment is restored
NextSnapshot ==
    \/ InitCall
    \/ InitOpened
    \/ InitTransactionsLoaded
    \/ InitSettingsLoaded
    \/ InitFallback(TRUE)
    \/ Tick
    \/ \E d \in {DraftFood, DraftSalary} : AddTransaction(d)
    \/ \E id \in Ids : DeleteTransaction(id)
    \/ AddCategory(EXPENSE, Zatsu)
    \/ \E given \in FilterInputs : ApplyFilters(given)
    \/ RoundTrip
    \/ \E i \in DOMAIN pending, ok \in BOOLEAN : CompleteWrite(i, ok)
    \/ \E i \in DOMAIN settingsWrites, ok \in BOOLEAN :
          CompleteSettingsWrite(i, ok)

SpecSnapshot == Init /\ [][NextSnapshot]_vars

\* init() over stores that hold data or not, readable or not, and the four
\* methods that write records
NextFallback ==
    \/ InitCall
    \/ InitOpened
    \/ InitTransactionsLoaded
    \/ InitSettingsLoaded
    \/ \E readable \in BOOLEAN : InitFallback(readable)
    \/ AddTransaction(DraftFood)
    \/ \E id \in Ids : UpdateTransaction(id, PatchAmount)
    \/ \E id \in Ids : DeleteTransaction(id)
    \/ AddTransactionsBatch(<<DraftFood, DraftNaN>>)
    \/ \E i \in DOMAIN pending, ok \in BOOLEAN : CompleteWrite(i, ok)

SpecFallback == InitStored /\ [][NextFallback]_vars

\* the ledger with the UI attached, destroy(), and calls before and after it
NextTeardown ==
    \/ BindDataEvents
    \/ InitCall
    \/ InitOpened
    \/ InitTransactionsLoaded
    \/ InitSettingsLoaded
    \/ \E readable \in BOOLEAN : InitFallback(readable)
    \/ AddTransaction(DraftFood)
    \/ ApplyFilters(FilterExpense)
    \/ FromSaveFormat(EditedSnapshot)
    \/ SaveSettingsCall
    \/ TimerFires
    \/ Destroy
    \/ \E op \in ThrowOnNull : CallAfterDestroy(op)
    \/ ApplyFiltersAfterDestroy(FilterExpense)
    \/ \E stored \in BOOLEAN : CreateBackupAfterDestroy(stored)
    \/ FromSaveFormatAfterDestroy(EditedSnapshot)
    \/ \E i \in DOMAIN pending, ok \in BOOLEAN : CompleteWrite(i, ok)
    \/ \E i \in DOMAIN pending, ok \in BOOLEAN : CompleteWriteAfterDestroy(i, ok)
    \/ \E i \in DOMAIN settingsWrites, ok \in BOOLEAN :
          CompleteSettingsWrite(i, ok)

SpecTeardown == InitStored /\ [][NextTeardown]_vars

\* the emitter alone: functions subscribe and unsubscribe, and dataChanged
\* is emitted; 'error' is emitted by emit itself
NextEmitter ==
    \/ \E event \in EmitterEvents, listener \in ListenerFunctions :
          On(event, listener)
    \/ \E event \in EmitterEvents, listener \in ListenerFunctions :
          Off(event, listener)
    \/ EmitEvent("dataChanged")

SpecEmitter == Init /\ [][NextEmitter]_vars

\* the emitter with listeners that subscribe and unsubscribe while a pass
\* runs, and callers that do so while emitAsync is suspended
NextDispatch ==
    \/ \E listener \in RegistryListeners : On("dataChanged", listener)
    \/ \E listener \in RegistryListeners : Off("dataChanged", listener)
    \/ EmitPass("dataChanged")
    \/ EmitAsync("dataChanged")
    \/ EmitAsyncResumes

SpecDispatch == Init /\ [][NextDispatch]_vars

\* createAutoBackup over a store that is full, and the cleanups it starts
NextBackups ==
    \/ InitCall
    \/ InitOpened
    \/ InitTransactionsLoaded
    \/ InitSettingsLoaded
    \/ \E readable \in BOOLEAN : InitFallback(readable)
    \/ \E stored \in BOOLEAN : CreateBackup(stored)
    \/ CleanupOldBackups
    \/ Tick

SpecBackups == InitBackups /\ [][NextBackups]_vars

\* additions and deletions around the first automatic backup, with
\* IndexedDB open
NextAutoBackup ==
    \/ InitCall
    \/ InitOpened
    \/ InitTransactionsLoaded
    \/ InitSettingsLoaded
    \/ \E d \in {DraftSalary, DraftNaN} : AddTransaction(d)
    \/ \E id \in Ids \cup {AUTO_BACKUP_INTERVAL + 1} : DeleteTransaction(id)
    \/ \E i \in DOMAIN pending, ok \in BOOLEAN : CompleteWrite(i, ok)
    \/ Tick

SpecAutoBackup == InitBacklog /\ [][NextAutoBackup]_vars

\* applyFilters over collections of records of both types and two months
NextFilters ==
    \/ InitCall
    \/ InitOpened
    \/ InitTransactionsLoaded
    \/ InitSettingsLoaded
    \/ \E readable \in BOOLEAN : InitFallback(readable)
    \/ \E d \in {DraftSalary, DraftFood} : AddTransaction(d)
    \/ \E given \in ViewFilters : ApplyFilters(given)
    \/ CalculateSummary
    \/ \E i \in DOMAIN pending, ok \in BOOLEAN : CompleteWrite(i, ok)
    \/ \E i \in DOMAIN settingsWrites, ok \in BOOLEAN :
          CompleteSettingsWrite(i, ok)

SpecFilters == Init /\ [][NextFilters]_vars

\* validateDataIntegrity and repairData over collections that additions and
\* restored snapshots have filled
NextIntegrity ==
    \/ InitCall
    \/ InitOpened
    \/ InitTransactionsLoaded
    \/ InitSettingsLoaded
    \/ \E readable \in BOOLEAN : InitFallback(readable)
    \/ \E d \in {DraftSalary, DraftUnregistered, DraftCrossed} :
          AddTransaction(d)
    \/ \E data \in DamagedSnapshots : FromSaveFormat(data)
    \/ AddCategory(EXPENSE, Zatsu)
    \/ ValidateDataIntegrity
    \/ RepairData
    \/ \E i \in DOMAIN pending, ok \in BOOLEAN : CompleteWrite(i, ok)
    \/ \E i \in DOMAIN settingsWrites, ok \in BOOLEAN :
          CompleteSettingsWrite(i, ok)

SpecIntegrity == Init /\ [][NextIntegrity]_vars

\* additions in both orders of their dates, and the exports
NextExport ==
    \/ InitCall
    \/ InitOpened
    \/ InitTransactionsLoaded
    \/ InitSettingsLoaded
    \/ \E readable \in BOOLEAN : InitFallback(readable)
    \/ \E d \in {DraftSalary, DraftFood} : AddTransaction(d)
    \/ ExportToCSV
    \/ \E xlsx \in BOOLEAN : ExportToExcel(xlsx, Feb2025)
    \/ ExportToJSON
    \/ \E i \in DOMAIN pending, ok \in BOOLEAN : CompleteWrite(i, ok)

SpecExport == Init /\ [][NextExport]_vars

\* add, update and delete issued while earlier calls are at their writes
NextIssue ==
    \/ InitCall
    \/ InitOpened
    \/ InitTransactionsLoaded
    \/ InitSettingsLoaded
    \/ \E readable \in BOOLEAN : InitFallback(readable)
    \/ \E d \in {DraftFood, DraftNaN} : AddTransaction(d)
    \/ \E id \in Ids, updates \in {PatchAmount, PatchNaN} :
          UpdateTransaction(id, updates)
    \/ \E id \in Ids : DeleteTransaction(id)
    \/ \E i \in DOMAIN pending, ok \in BOOLEAN : CompleteWrite(i, ok)

SpecIssue == InitStored /\ [][NextIssue]_vars

\* a session in which IndexedDB opens and loads, every call is awaited before
\* the next one is issued, and every request succeeds unless its key is taken
NextAwaited ==
    \/ InitCall
    \/ InitOpened
    \/ InitTransactionsLoaded
    \/ InitSettingsLoaded
    \/ pending = <<>> /\ AddTransaction(DraftFood)
    \/ pending = <<>> /\ \E id \in Ids : UpdateTransaction(id, PatchAmount)
    \/ pending = <<>> /\ \E id \in Ids : DeleteTransaction(id)
    \/ pending = <<>> /\ AddTransactionsBatch(<<DraftSalary, DraftNaN, DraftFood>>)
    \/ pending = <<>> /\ ClearAllData
    \/ \E i \in DOMAIN pending : CompleteWrite(i, TRUE)

SpecAwaited == InitStored /\ [][NextAwaited]_vars

\* one debounced function, called at any time with any arguments
NextDebounce ==
    \/ \E immediate \in BOOLEAN : Debounce(immediate)
    \/ \E args \in DebounceArgs : ExecutedFunction(args)
    \/ Later
    \/ TimePasses

SpecDebounce == Init /\ [][NextDebounce]_vars

\* addTransaction called while init() is at one of its awaits, and after
NextStartup ==
    \/ InitCall
    \/ InitOpened
    \/ InitTransactionsLoaded
    \/ InitSettingsLoaded
    \/ \E readable \in BOOLEAN : InitFallback(readable)
    \/ \E d \in {DraftFood, DraftNaN} : AddTransactionDuringInit(d)
    \/ AddTransaction(DraftSalary)
    \/ \E i \in DOMAIN pending, ok \in BOOLEAN : CompleteWrite(i, ok)

SpecStartup == InitStored /\ [][NextStartup]_vars

\* the view is built, and records are added and updated afterwards
NextView ==
    \/ InitCall
    \/ InitOpened
    \/ InitTransactionsLoaded
    \/ InitSettingsLoaded
    \/ \E readable \in BOOLEAN : InitFallback(readable)
    \/ AddTransaction(DraftFood)
    \/ \E given \in ViewFilters : ApplyFilters(given)
    \/ \E id \in Ids : UpdateTransaction(id, PatchAmount)
    \/ \E i \in DOMAIN pending, ok \in BOOLEAN : CompleteWrite(i, ok)
    \/ \E i \in DOMAIN settingsWrites, ok \in BOOLEAN :
          CompleteSettingsWrite(i, ok)

SpecView == Init /\ [][NextView]_vars

\* listeners registered with on, once and waitFor, and emits
NextOnce ==
    \/ \E event \in EmitterEvents, listener \in OnceListeners :
          On(event, listener)
    \/ \E event \in EmitterEvents, listener \in OnceListeners :
          Off(event, listener)
    \/ \E event \in EmitterEvents : Once(event)
    \/ \E event \in EmitterEvents : WaitFor(event)
    \/ WaitForTimesOut
    \/ \E event \in EmitterEvents : EmitNested(event)

SpecOnce == Init /\ [][NextOnce]_vars

\* additions whose writes succeed or fail, and a new ledger afterwards
NextReload ==
    \/ InitCall
    \/ InitOpened
    \/ InitTransactionsLoaded
    \/ InitSettingsLoaded
    \/ \E readable \in BOOLEAN : InitFallback(readable)
    \/ \E d \in {DraftFood, DraftSalary} : AddTransaction(d)
    \/ \E i \in DOMAIN pending, ok \in BOOLEAN : CompleteWrite(i, ok)
    \/ NewLedger

SpecReload == Init /\ [][NextReload]_vars

-----------------------------------------------------------------------------
(* Properties *)

\* the five fields of a record that come from the sanitized draft
SameData(tx, sanitizedData) ==
    /\ tx.date = sanitizedData.date
    /\ tx.type = sanitizedData.type
    /\ tx.category = sanitizedData.category
    /\ tx.amount = sanitizedData.amount
    /\ tx.description = sanitizedData.description

\* the step in which a call suspended in addTransaction resolves
AddResolves ==
    /\ last'.op = "addTransaction"
    /\ Len(pending') < Len(pending)
    /\ \E i \in DOMAIN pending, ok \in BOOLEAN :
          pending[i].kind = "addTransaction" /\ CompleteWrite(i, ok)

\* the step is a call of addTransaction with draft d
AddCalled(d) == last'.op = "addTransaction" /\ AddTransaction(d)

\* C1: for every draft the Sanitizer accepts, addTransaction puts exactly one
\* record after the stored ones, which stay as they were; the record carries
\* the sanitized date, type, category, amount and description and an id no
\* stored record has; the step in which the call resolves after its backend
\* write leaves the collection as the call made it.
AddAppendsOneSanitizedRecord ==
    [][/\ \A d \in Drafts :
             LET validation == validateAndSanitizeTransaction(d)
             IN  (AddCalled(d) /\ validation.isValid) =>
                    /\ Len(transactions') = Len(transactions) + 1
                    /\ SubSeq(transactions', 1, Len(transactions)) = transactions
                    /\ SameData(transactions'[Len(transactions')],
                                validation.sanitizedData)
                    /\ transactions'[Len(transactions')].id
                          \notin IdsOf(transactions)
                    /\ last'.res \in {"resolved", "suspended"}
       /\ AddResolves => transactions' = transactions /\ last'.res = "resolved"
      ]_vars

\* addTransaction has resolved after an IndexedDB write, with the draft whose
\* category and description the Sanitizer rewrites, next to an older record
AddedSanitizedRecord ==
    /\ last.op = "addTransaction" /\ last.res = "resolved"
    /\ isInitialized /\ db
    /\ Len(transactions) = 2
    /\ transactions[2] = last.value
    /\ transactions[2].category = Shokuhi
    /\ transactions[2].description = <<"n">>
    /\ transactions[2].id # transactions[1].id

\* C2: when the validation of the draft fails, addTransaction throws and the
\* collection, the caches, the stats, the registry and the backend stay as
\* they were, and the step emits no event.
RejectedAddChangesNothing ==
    [][\A d \in Drafts :
          (AddCalled(d) /\ ~validateAndSanitizeTransaction(d).isValid) =>
             /\ last'.res = "throw"
             /\ events' = <<>>
             /\ UNCHANGED <<transactions, categories, cacheVars, stats,
                            storageVars, pending>>
      ]_vars

\* addTransaction has thrown on a ledger that holds a record and both caches
AddRejectedOnFilledLedger ==
    /\ last.op = "addTransaction" /\ last.res = "throw"
    /\ Len(transactions) >= 1
    /\ summaryCache # Null
    /\ monthlyDataCache # <<>>

\* C3: every stored transaction's category is in the registry list of the
\* transaction's own type.
CategoriesAreRegistered ==
    \A i \in DOMAIN transactions :
        Includes(categories[transactions[i].type], transactions[i].category)

\* the ids the step puts into the collection
NewIds == IdsOf(transactions') \ IdsOf(transactions)

DeleteOfAbsentIdIsNoOp ==
    [][\A id \in Ids :
          (/\ last'.op = "deleteTransaction"
           /\ DeleteTransaction(id)
           /\ id \notin IdsOf(transactions)) =>
             /\ last'.res = "resolved"
             /\ events' = <<>>
             /\ UNCHANGED <<transactions, categories, cacheVars, stats,
                            storageVars, pending>>
      ]_vars

\* deleteTransaction has returned null for the id of a record that an
\* earlier call deleted, while another record is stored and cached
DeletedTwice ==
    /\ last.op = "deleteTransaction" /\ last.res = "resolved"
    /\ last.value = Null
    /\ events = <<>>
    /\ Len(transactions) = 1
    /\ transactions[1].id = 2
    /\ 1 \in issued
    /\ summaryCache # Null

\* the step is a call of addTransactionsBatch with these drafts
BatchCalled(drafts) ==
    last'.op = "addTransactionsBatch" /\ AddTransactionsBatch(drafts)

\* what the call returns, or will return when its backend write settles
BatchResult ==
    IF last'.res = "suspended" THEN pending'[Len(pending')].value
                               ELSE last'.value

\* the step in which a call suspended in addTransactionsBatch resolves
BatchResolves ==
    /\ last'.op = "addTransactionsBatch"
    /\ Len(pending') < Len(pending)

\* C5: a batch of three drafts of which one has a negative amount yields two
\* added records and one row in error, and the collection grows by two.
NegativeRowIsExcluded ==
    [][BatchCalled(NegativeBatch) =>
          /\ last'.res # "throw"
          /\ Len(BatchResult.added) = 2
          /\ Len(BatchResult.errors) = 1
          /\ Len(transactions') = Len(transactions) + 2
      ]_vars

\* the rows of a batch that the Sanitizer accepts, in input order
ValidRows(drafts) ==
    SelectSeq(drafts, LAMBDA d : validateAndSanitizeTransaction(d).isValid)

SummaryAgreesWithCollection ==
    last.op = "calculateSummary" =>
        /\ summaryCache.income = TypeTotal(transactions, INCOME)
        /\ summaryCache.expense = TypeTotal(transactions, EXPENSE)
        /\ summaryCache.balance = summaryCache.income - summaryCache.expense
        /\ summaryCache.transactionCount = Len(transactions)

\* the methods that change the collection
ChangingMethods ==
    {"addTransaction", "updateTransaction", "deleteTransaction",
     "addTransactionsBatch", "clearAllData", "fromSaveFormat", "repairData"}

\* the last step completed a method that changes the collection;
\* deleteTransaction of an absent id returns before it changes anything
ChangeCompleted ==
    /\ last.op \in ChangingMethods
    /\ last.res = "resolved"
    /\ last.op = "deleteTransaction" => events # <<>>

UpdateCalled(id, updates) ==
    last'.op = "updateTransaction" /\ UpdateTransaction(id, updates)

\* C10: updateTransaction validates the current record overlaid with the
\* patch: when that validates, the record at the same position becomes the
\* sanitized merge with the id and createdAt it had, whatever the patch says
\* about them, and the other records and the length stay; when it does not,
\* the call throws and the collection, the caches and the backend stay.
UpdateReplacesWithSanitizedMerge ==
    [][\A id \in Ids, updates \in Patches :
          (UpdateCalled(id, updates) /\ id \in IdsOf(transactions)) =>
             LET index == FindIndex(transactions, id)
                 current == transactions[index]
                 validation == validateAndSanitizeTransaction(
                                   MergeUpdates(current, updates))
             IN  IF validation.isValid
                 THEN /\ last'.res # "throw"
                      /\ Len(transactions') = Len(transactions)
                      /\ \A j \in DOMAIN transactions :
                            j # index => transactions'[j] = transactions[j]
                      /\ SameData(transactions'[index], validation.sanitizedData)
                      /\ transactions'[index].id = current.id
                      /\ transactions'[index].createdAt = current.createdAt
                 ELSE /\ last'.res = "throw"
                      /\ events' = <<>>
                      /\ UNCHANGED <<transactions, cacheVars, storageVars>>
      ]_vars

\* a patch that names another id, createdAt and type was applied after the
\* clock had advanced: the record keeps its id and createdAt
UpdatedWithForeignIdentity ==
    /\ last.op = "updateTransaction" /\ last.res = "resolved"
    /\ Len(transactions) = 1
    /\ transactions[1].type = INCOME
    /\ transactions[1].category = Shokuhi
    /\ transactions[1].id = 1
    /\ transactions[1].createdAt = 0
    /\ transactions[1].updatedAt = 1

-----------------------------------------------------------------------------
(* removeCategory *)

\* the step is a call of removeCategory with these arguments
RemoveCalled(type, categoryName, replacementCategory) ==
    /\ last'.op = "removeCategory"
    /\ RemoveCategory(type, categoryName, replacementCategory)

\* C11: removeCategory(type, name) without a replacement, while N >= 1 stored
\* records of that type reference name, fails with an error that carries N;
\* the registry, the collection, both stores and the writes in flight stay as
\* they were, and neither categoryRemoved nor dataChanged is emitted.
RemoveInUseWithoutReplacementFails ==
    [][\A categoryName \in RemovedCategoryNames :
          LET count == Cardinality(Related(transactions, EXPENSE, categoryName))
          IN  (RemoveCalled(EXPENSE, categoryName, Null) /\ count >= 1) =>
                 /\ last'.res = "throw"
                 /\ last'.value = [count |-> count]
                 /\ UNCHANGED <<categories, transactions, filters, stats,
                                storageVars, pending, settingsWrites>>
                 /\ ~Includes(events', "categoryRemoved")
                 /\ ~Includes(events', "dataChanged")]_vars

\* removeCategory without a replacement has just failed on a category that a
\* stored record references
RemoveInUseWithoutReplacementFailsWitness ==
    /\ last.op = "removeCategory"
    /\ last.res = "throw"
    /\ last.value = [count |-> 1]
    /\ \E i \in DOMAIN transactions : transactions[i].category = Shokuhi
    /\ Includes(categories[EXPENSE], Shokuhi)

\* C12: removeCategory(type, name, replacement) with N >= 1 referencing
\* records: whenever the call returns, no stored record of that type
\* references name, the N records that referenced it carry replacement as
\* their category, the other records are as they were, and name is not in
\* the registry.
RemoveWithReplacementReassigns ==
    [][\A categoryName \in RemovedCategoryNames,
         replacementCategory \in Replacements \ {Null} :
          LET related == Related(transactions, EXPENSE, categoryName)
          IN  (/\ RemoveCalled(EXPENSE, categoryName, replacementCategory)
               /\ Cardinality(related) >= 1
               /\ last'.res = "resolved") =>
                 /\ Related(transactions', EXPENSE, categoryName) = {}
                 /\ Len(transactions') = Len(transactions)
                 /\ \A i \in DOMAIN transactions :
                       IF i \in related
                       THEN transactions'[i].category = replacementCategory
                       ELSE transactions'[i] = transactions[i]
                 /\ ~Includes(categories'[EXPENSE], categoryName)]_vars

\* the call reports success: it returns, or emits categoryRemoved, or takes
\* the name out of the registry
RemovalReported(type, categoryName) ==
    \/ last'.res = "resolved"
    \/ Includes(events', "categoryRemoved")
    \/ ~Includes(categories'[type], categoryName)

\* C13: removeCategory with a replacement reports success only when every
\* reassignment has completed: each record that referenced the name has been
\* replaced in the collection and no backend write of a reassignment is still
\* in flight; a failed reassignment makes the call fail.
RemoveReportsAfterEveryReassignment ==
    [][\A categoryName \in RemovedCategoryNames,
         replacementCategory \in Replacements \ {Null} :
          LET related == Related(transactions, EXPENSE, categoryName)
          IN  (/\ RemoveCalled(EXPENSE, categoryName, replacementCategory)
               /\ Cardinality(related) >= 1
               /\ RemovalReported(EXPENSE, categoryName)) =>
                 /\ \A i \in related : transactions'[i] # transactions[i]
                 /\ pending' = pending]_vars

-----------------------------------------------------------------------------
(* Snapshots *)

\* C14: fromSaveFormat(toSaveFormat()) leaves the ledger as it was before the
\* snapshot was taken: the same records in the same order, the same category
\* lists, the same filters and the same stats.
RoundTripKeepsTheLedger ==
    [][(last'.op = "fromSaveFormat" /\ RoundTrip) =>
          UNCHANGED <<transactions, categories, filters, stats>>]_vars

-----------------------------------------------------------------------------
(* init() and the localStorage fallback *)

\* the step in which init() resolves after dbManager.init() has failed
OpenFailed == initPc = "opening" /\ \E readable \in BOOLEAN : InitFallback(readable)

\* C15: when dbManager.init() fails, init() still resolves and the ledger
\* accepts calls; from then on dbManager.db reads null (the session is
\* degraded), and every addTransaction that succeeds has written its record
\* to the localStorage snapshot when it resolves.
FallbackPersistsEveryAdd ==
    [][/\ OpenFailed =>
             (last'.res = "resolved" /\ isInitialized' /\ initPc' = "done" /\ ~db')
       /\ (initPc = "done" /\ ~db) => ~db'
       /\ (AddCalled(DraftFood) /\ ~db /\ last'.res = "resolved") =>
             /\ ls' # Null
             /\ Includes(ls'.transactions, last'.value)]_vars

\* dataLoaded is emitted and dataChanged after it, and no dataChanged comes
\* before the first dataLoaded
LoadedThenChanged(evs) ==
    /\ evs # <<>>
    /\ evs[1] = "dataLoaded"
    /\ \E j \in 2..Len(evs) : evs[j] = "dataChanged"

RecordWrites == {"addTransaction", "updateTransaction", "deleteTransaction",
                 "addTransactionsBatch"}

-----------------------------------------------------------------------------
(* destroy() *)

\* the public operations of the ledger
PublicOperations ==
    ThrowOnNull \cup {"applyFilters", "saveSettings", "createAutoBackup",
                      "fromSaveFormat"}

\* C18: after destroy() every call of a public operation is rejected and
\* changes neither the state of the ledger nor a backend.
CallsAfterDestroyAreRejected ==
    [][(Destroyed /\ calls' = calls + 1 /\ last'.op \in PublicOperations) =>
          /\ last'.res = "throw"
          /\ UNCHANGED <<ledgerVars, storageVars, pending, settingsWrites>>]_vars

\* the registry and the filters that the active backend holds; a backend in
\* which no settings were ever written stands for the defaults
SavedSettings(isDb, idbS, lsv) ==
    LET held == IF isDb THEN idbS ELSE lsv
    IN  IF held = Null
        THEN [categories |-> DEFAULT_CATEGORIES, filters |-> NoFilters]
        ELSE [categories |-> held.categories, filters |-> held.filters]

\* the active backend holds this registry and these filters, or a write of
\* them to it has been requested
SettingsWritten(cats, flt, isDb, idbS, lsv, writes) ==
    \/ SavedSettings(isDb, idbS, lsv) = [categories |-> cats, filters |-> flt]
    \/ /\ isDb
       /\ \E i \in DOMAIN writes :
             writes[i].categories = cats /\ writes[i].filters = flt

\* C19: when destroy() is called while the debounced settings write is
\* pending and the registry or the filters differ from what the active
\* backend holds, destroy() writes the current settings to that backend
\* before it closes it; after destroy() no listener is subscribed.
DestroyFlushesSettings ==
    [][(last'.op = "destroy" /\ Destroy) =>
          /\ (/\ settingsTimer
               /\ ~SettingsWritten(categories, filters, db, idbSettings, ls,
                                   settingsWrites)) =>
                SettingsWritten(categories, filters, db, idbSettings', ls',
                                settingsWrites')
          /\ listeners' = <<>>]_vars

-----------------------------------------------------------------------------
(* EventEmitter *)

\* the number of invocations in the log that satisfy Test
Invocations(log, Test(_)) == Cardinality({k \in DOMAIN log : Test(log[k])})

\* C20: when a listener throws during emit(event), emit returns true without
\* throwing, every listener of the event is invoked once in the pass, and
\* for each throw every listener of 'error' is invoked once with the name of
\* the event.
ThrowingListenerIsIsolated ==
    [][\A event \in EmitterEvents \ {"error"} :
          (/\ last'.op = "emit"
           /\ EmitEvent(event)
           /\ Includes(Listeners(event), Throws)) =>
              LET log == last'.value.log
                  throws == Cardinality({i \in DOMAIN Listeners(event) :
                                           Listeners(event)[i] = Throws})
              IN  /\ last'.res = "resolved"
                  /\ last'.value.returned = "true"
                  /\ \A i \in DOMAIN Listeners(event) :
                        Invocations(log, LAMBDA c : c.event = event
                                                   /\ c.index = i
                                                   /\ c.depth = 1) = 1
                  /\ \A j \in DOMAIN Listeners("error") :
                        Invocations(log, LAMBDA c : c.event = "error"
                                                   /\ c.index = j
                                                   /\ c.origin = event) = throws]_vars

-----------------------------------------------------------------------------
(* EventEmitter: the pass of emit and emitAsync *)

\* C21: emit and emitAsync invoke exactly the listeners that were registered
\* for the event when the call was made, each once and in their order: a
\* listener that an earlier listener removes during the pass is still
\* invoked in it, and a listener added during the pass is not.
PassRunsOverTheListenersAtTheCall ==
    [][/\ (last'.op = "emit" /\ EmitPass("dataChanged")) =>
             last'.value.log = Listeners("dataChanged")
       /\ (last'.op = "emitAsync" /\ dispatch = Null
             /\ EmitAsync("dataChanged")) =>
             /\ dispatch' # Null => dispatch'.copy = Listeners("dataChanged")
             /\ dispatch' = Null => last'.value.log = Listeners("dataChanged")
       /\ (last'.op = "emitAsync" /\ EmitAsyncResumes) =>
             /\ dispatch' # Null =>
                   /\ dispatch'.copy = dispatch.copy
                   /\ dispatch'.log = SubSeq(dispatch.copy, 1, dispatch'.index)
             /\ dispatch' = Null => last'.value.log = dispatch.copy]_vars

\* a pass has ended in which the first listener removed the second, and the
\* second was invoked all the same
PassRunsOverTheListenersAtTheCallWitness ==
    /\ last.op \in {"emit", "emitAsync"}
    /\ last.res = "resolved"
    /\ last.value.log = <<Unsubscribes, Returns>>
    /\ ~Includes(Listeners("dataChanged"), Returns)

-----------------------------------------------------------------------------
(* Backups *)

\* C22: when the cleanup of a createBackup() has run, the store 'backups'
\* holds at most 10 entries; a cleanup deletes from a store of more than 10
\* down to 10, and no entry it deletes has a later timestamp than an entry
\* it keeps, however many backups were added before the cleanup ran; when
\* no cleanup is outstanding the store holds at most 10 entries.
CleanupKeepsTheTenMostRecent ==
    [][/\ (last'.op = "cleanupOldBackups" /\ CleanupOldBackups) =>
             /\ backups'.store \subseteq backups.store
             /\ Cardinality(backups'.store) <= 10
             /\ Cardinality(backups.store) >= 10 =>
                   Cardinality(backups'.store) = 10
             /\ \A deleted \in backups.store \ backups'.store,
                   kept \in backups'.store :
                     deleted.timestamp <= kept.timestamp
       /\ backups'.cleanups = 0 => Cardinality(backups'.store) <= 10]_vars

\* two backups were added to a full store before a cleanup ran, and the
\* cleanup has deleted the two oldest entries
CleanupKeepsTheTenMostRecentWitness ==
    /\ last.op = "cleanupOldBackups"
    /\ backups.key = 12
    /\ Cardinality(backups.store) = 10
    /\ \A b \in backups.store : b.id > 2

\* C23: an addTransaction that succeeds requests an automatic backup exactly
\* when it is a K-th successful addition (K = AUTO_BACKUP_INTERVAL), whatever
\* deletions were made between the additions.
AutoBackupOnEveryKthAddition ==
    [][\A i \in DOMAIN pending :
          (/\ pending[i].kind = "addTransaction"
           /\ \E ok \in BOOLEAN : CompleteWrite(i, ok)) =>
              (backups'.requests = backups.requests + 1
                  <=> added' % AUTO_BACKUP_INTERVAL = 0)]_vars

-----------------------------------------------------------------------------
(* getMonthlyData *)

\* C24: the map getMonthlyData(monthCount, endDate) returns, from the cache
\* or built, has as keys exactly the monthCount months that end at the month
\* of endDate, and under each key the sums of the amounts of the stored
\* income and expense records of that month (0 when there is none).
MonthlyDataAgreesWithCollection ==
    [][\A q \in MonthlyQueries :
          (last'.op = "getMonthlyData" /\ GetMonthlyData(q[1], q[2])) =>
              LET returned == monthlyDataCache'[CacheKey(q[1], q[2])]
                  OfMonth(key, type) ==
                      SelectSeq(transactions,
                                LAMBDA tx : MonthOf(tx.date) = key /\ tx.type = type)
              IN  /\ DOMAIN returned =
                        {MonthOfIndex(MonthIndex(q[2]) - i) : i \in 0..(q[1].n - 1)}
                  /\ \A key \in DOMAIN returned :
                        /\ returned[key].income = SumAmounts(OfMonth(key, INCOME))
                        /\ returned[key].expense = SumAmounts(OfMonth(key, EXPENSE))]_vars

-----------------------------------------------------------------------------
(* applyFilters *)

\* the records of the collection that a filter selects: those equal to the
\* filter in every field the filter sets
Selected(txs, flt) ==
    {i \in DOMAIN txs :
        /\ flt.type # "" => txs[i].type = flt.type
        /\ flt.category # <<>> => txs[i].category = flt.category
        /\ flt.month # <<>> => /\ txs[i].date[1] = flt.month[1]
                               /\ txs[i].date[2] = flt.month[2]}

-----------------------------------------------------------------------------
(* Two instances *)

\* C26: no operation on one instance changes the categories of another
\* instance, nor the default categories with which an instance constructed
\* later starts.
InstancesAreIndependent ==
    [][/\ ConstructedCategories' = ConstructedCategories
       /\ ConstructedCategories' = DEFAULT_CATEGORIES]_vars

-----------------------------------------------------------------------------
(* validateDataIntegrity, repairData *)

\* C27: validateDataIntegrity() changes nothing and returns isValid = true
\* exactly when no two records share an id and every record has an id, a
\* date, a type that is income or expense, a positive amount, and a category
\* that is in the registry list of the record's own type.
IntegrityVerdictIsExact ==
    [][(last'.op = "validateDataIntegrity" /\ ValidateDataIntegrity) =>
          /\ UNCHANGED <<ledgerVars, storageVars, sessionVars, pending,
                         settingsWrites, issued, filteredTransactions>>
          /\ last'.value.isValid <=>
                /\ \A i, j \in DOMAIN transactions :
                      i # j => transactions[i].id # transactions[j].id
                /\ \A i \in DOMAIN transactions :
                      /\ transactions[i].id # 0
                      /\ transactions[i].date # <<>>
                      /\ transactions[i].type \in {INCOME, EXPENSE}
                      /\ transactions[i].amount > 0
                      /\ Includes(categories[transactions[i].type],
                                  transactions[i].category)]_vars

\* C28: repairData() completes whatever the collection holds, and when it
\* has returned validateDataIntegrity() reports isValid = true.
RepairEstablishesIntegrity ==
    [][(last'.op = "repairData" /\ RepairData) =>
          /\ last'.res = "resolved"
          /\ validateDataIntegrity(transactions', categories').isValid]_vars

\* C29: once fromSaveFormat(snapshot) has completed on an initialised ledger,
\* the active backend holds exactly the restored transactions and settings:
\* with IndexedDB open the transaction store holds the records of the restored
\* collection and the settings store the restored categories and filters,
\* otherwise the localStorage entry holds them.
RestoreIsDurable ==
    [][(last'.op = "fromSaveFormat" /\ initPc = "done"
             /\ FromSaveFormat(EditedSnapshot)) =>
          /\ db => idb' = Range(transactions')
          /\ ~db => (ls' # Null /\ ls'.transactions = transactions')
          /\ SavedSettings(db, idbSettings', ls')
                = [categories |-> categories', filters |-> filters']]_vars

\* C30: exportToExcel, exportToCSV and exportToJSON leave the transaction
\* collection of the ledger as it was, in content and in order.
ExportsLeaveTheCollectionUnchanged ==
    [][(last'.op \in {"exportToExcel", "exportToCSV", "exportToJSON"}
          /\ Export) => transactions' = transactions]_vars

\* an earlier call is suspended at its backend write
InFlight == pending # <<>>

\* the collection with the record at index left out
Without(txs, index) ==
    [j \in 1..(Len(txs) - 1) |-> IF j < index THEN txs[j] ELSE txs[j + 1]]

\* C31: a call of addTransaction, updateTransaction or deleteTransaction
\* issued while earlier calls are still at their backend writes changes the
\* collection in its own step exactly as the same call does on the collection
\* it finds (append the sanitized record, replace the record of the id by the
\* sanitized merge, leave the record of the id out, or nothing when the call
\* is rejected), and no completion of a backend write, in whatever order and
\* with whatever outcome, changes the collection.
MemoryFollowsIssueOrder ==
    [][/\ \A d \in Drafts :
             LET validation == validateAndSanitizeTransaction(d)
             IN  (InFlight /\ AddCalled(d)) =>
                    IF validation.isValid
                    THEN /\ Len(transactions') = Len(transactions) + 1
                         /\ SubSeq(transactions', 1, Len(transactions))
                               = transactions
                         /\ SameData(transactions'[Len(transactions')],
                                     validation.sanitizedData)
                    ELSE transactions' = transactions
       /\ \A id \in Ids, updates \in Patches :
             (InFlight /\ UpdateCalled(id, updates)) =>
                LET index == FindIndex(transactions, id)
                    validation == validateAndSanitizeTransaction(
                                      MergeUpdates(transactions[index], updates))
                IN  IF index # 0 /\ validation.isValid
                    THEN /\ Len(transactions') = Len(transactions)
                         /\ \A j \in DOMAIN transactions :
                               j # index => transactions'[j] = transactions[j]
                         /\ SameData(transactions'[index],
                                     validation.sanitizedData)
                         /\ transactions'[index].id = id
                    ELSE transactions' = transactions
       /\ \A id \in Ids :
             (InFlight /\ last'.op = "deleteTransaction"
                /\ DeleteTransaction(id)) =>
                LET index == FindIndex(transactions, id)
                IN  transactions' = IF index = 0 THEN transactions
                                    ELSE Without(transactions, index)
       /\ \A i \in DOMAIN pending, ok \in BOOLEAN :
             CompleteWrite(i, ok) => transactions' = transactions
      ]_vars

\* two calls are at their writes, an update issued first and a delete issued
\* after it without awaiting
MemoryFollowsIssueOrderWitness ==
    /\ Len(pending) = 2
    /\ pending[1].kind = "updateTransaction"
    /\ pending[2].kind = "deleteTransaction"
    /\ last.op = "deleteTransaction"
    /\ last.res = "suspended"

\* the fields of a record the store and the collection are compared on
Persisted(tx) ==
    [id |-> tx.id, date |-> tx.date, type |-> tx.type,
     category |-> tx.category, amount |-> tx.amount]

\* C32: in a session where IndexedDB opened and loaded, with every mutation
\* awaited and no failed write, once no call is in flight the transactions
\* store holds as many records as the collection, with the same ids, dates,
\* types, categories and amounts.
AwaitedStoreAgreesWithMemory ==
    (initPc = "done" /\ pending = <<>> /\ failures = 0) =>
        /\ Cardinality(idb) = Len(transactions)
        /\ {Persisted(r) : r \in idb}
              = {Persisted(transactions[i]) : i \in DOMAIN transactions}

\* three awaited calls have resolved, the last one a delete that removed a
\* record, and a record remains
AwaitedStoreAgreesWithMemoryWitness ==
    /\ initPc = "done"
    /\ pending = <<>>
    /\ failures = 0
    /\ calls = MaxCalls
    /\ last.op = "deleteTransaction"
    /\ last.value # Null
    /\ Len(transactions) > 0

\* call i is the first of its burst: no call came less than wait before it
StartsBurst(log, i) == i = 1 \/ log[i].at - log[i - 1].at >= DebounceWait

\* call i is the last of its burst: no call came less than wait after it
EndsBurst(log, i) ==
    i = Len(log) \/ log[i + 1].at - log[i].at >= DebounceWait

\* the indices 1..n in order
Indices(n) == [i \in 1..n |-> i]

\* the runs of func a trailing debounce owes: one per burst, wait after the
\* last call of the burst, with the arguments of that call
TrailingRuns(log) ==
    LET ends == SelectSeq(Indices(Len(log)), LAMBDA i : EndsBurst(log, i))
    IN  [k \in DOMAIN ends |-> [at |-> log[ends[k]].at + DebounceWait,
                                args |-> log[ends[k]].args]]

\* the runs of func a leading debounce owes: one per burst, at the first
\* call of the burst, with the arguments of that call
LeadingRuns(log) ==
    LET starts == SelectSeq(Indices(Len(log)), LAMBDA i : StartsBurst(log, i))
    IN  [k \in DOMAIN starts |-> [at |-> log[starts[k]].at,
                                  args |-> log[starts[k]].args]]

\* C33: with immediate = false func has run exactly once for every burst
\* whose wait has passed, wait after the last call of the burst and with the
\* arguments of that call, and not otherwise (while the timer of the last
\* call is due and has not run, its run is still to come); with immediate =
\* true func has run
\* exactly once per burst, at the first call of the burst and with its
\* arguments, and never at the end of a burst.
DebounceCoalescesBursts ==
    debounced # Null =>
       IF debounced.immediate
       THEN debounced.runs = LeadingRuns(debounced.calls)
       ELSE LET owed == TrailingRuns(debounced.calls)
                past == SelectSeq(owed, LAMBDA r : r.at < debounced.clock)
                due == SelectSeq(owed, LAMBDA r : r.at <= debounced.clock)
            IN  debounced.runs = IF TimerDue(debounced) THEN past ELSE due

\* a burst of three calls with different arguments has ended, and func has
\* run once
DebounceCoalescesBurstsWitness ==
    /\ debounced # Null
    /\ ~debounced.immediate
    /\ Len(debounced.calls) = 3
    /\ \A i \in 1..3 : StartsBurst(debounced.calls, i) <=> i = 1
    /\ debounced.calls[1].args # debounced.calls[3].args
    /\ debounced.clock > debounced.calls[3].at + DebounceWait
    /\ Len(debounced.runs) = 1

\* C34: once init() has completed, every record an addTransaction call of
\* this session has added, also one added while init() was in progress, is
\* in the collection (the session deletes nothing).
InitKeepsRecordsAddedMeanwhile ==
    initPc = "done" =>
        \A id \in issued \ {StoredTransaction.id} : id \in IdsOf(transactions)

\* C35: on the destroyed ledger neither the debounced saveSettings, when its
\* timer fires, nor the path that follows the settling of a request that was
\* in flight when destroy() ran, writes to localStorage or to the settings or
\* backup store (the request in flight itself was made before destroy()).
NoDeferredWriteAfterDestroy ==
    [][(Destroyed /\ (TimerFires
                        \/ \E i \in DOMAIN pending, ok \in BOOLEAN :
                              CompleteWriteAfterDestroy(i, ok))) =>
          /\ ls' = ls
          /\ lsBackup' = lsBackup
          /\ idbSettings' = idbSettings
          /\ idbBackup' = idbBackup
          /\ settingsWrites' = settingsWrites]_vars

\* C39: whenever no call of the ledger is suspended at a write, every record
\* of filteredTransactions is a record of the collection with the field
\* values it has there.
ViewHoldsCurrentRecords ==
    (initPc = "done" /\ pending = <<>> /\ settingsWrites = <<>>) =>
        \A i \in DOMAIN filteredTransactions :
            Includes(transactions, filteredTransactions[i])

\* C38: emit returns for every registry, also when a listener of 'error'
\* throws: the republication of a listener's error on 'error' nests one emit
\* inside the emit of the caller and never uses up the call stack.
EmitReturnsWithinTheStack ==
    [][\A event \in EmitterEvents :
          (last'.op = "emit" /\ EmitEvent(event)) =>
              /\ last'.value.returned # "throw"
              /\ \A k \in DOMAIN last'.value.log :
                    last'.value.log[k].depth <= 2]_vars

\* how often the listener occurs in a log of invocations
Occurrences(log, listener) ==
    Cardinality({k \in DOMAIN log : log[k] = listener})

\* C36: an emit, with every emit of the same event that a listener issues
\* while it runs, invokes a listener registered with once at most once.
OnceListenerRunsAtMostOnce ==
    [][\A event \in EmitterEvents :
          (last'.op = "emit" /\ EmitNested(event)) =>
              Occurrences(last'.value.log, OnceWrapper) <= 1]_vars

\* C37: when waitFor times out, the listener it registered is no longer
\* subscribed and the event has one listener fewer, as before the call.
TimedOutWaitForUnsubscribes ==
    [][WaitForTimesOut =>
          /\ ~Includes(ListOf(listeners', timeoutId.event), WaitWrapper)
          /\ Len(ListOf(listeners', timeoutId.event))
                = Len(ListOf(listeners, timeoutId.event)) - 1]_vars

\* C40: when init() of a ledger completes with IndexedDB open, every record
\* of the snapshot that the fallback of a failed IndexedDB write left in
\* localStorage is in the loaded collection (the sessions only add records,
\* and localStorage is written by that fallback alone).
FallbackRecordIsLoadedAgain ==
    [][(last'.op = "init" /\ InitSettingsLoaded /\ ls # Null) =>
          \A i \in DOMAIN ls.transactions :
              ls.transactions[i].id \in IdsOf(transactions')]_vars

====
